---- MODULE Spec2Model ----
(***************************************************************************)
(* WhatsIt background script (src/background.js): the message listener,    *)
(* summarizeContent / rewriteText with their fallbacks, and the ranker     *)
(* selectKeyPoints.                                                        *)
(*                                                                         *)
(* JavaScript values that may be missing are tagged records: Undefined,    *)
(* Str(<<chars>>) for a string, Arr(<<elements>>) for an array.  A string  *)
(* is a sequence of one-character strings.  A fragment (text element) is a *)
(* record [type, text, importance] whose text is a character sequence.     *)
(***************************************************************************)
EXTENDS FiniteSets, Integers, Sequences, TLC

Undefined == [t |-> "undefined"]
Str(s) == [t |-> "string", s |-> s]
Arr(a) == [t |-> "array", a |-> a]
IsStr(v) == v.t = "string"
IsArr(v) == v.t = "array"

Rep(c, n) == [i \in 1..n |-> c]

(***************************************************************************)
(* String literals of background.js                                        *)
(***************************************************************************)
S_ThisPageDiscusses ==
  <<"T", "h", "i", "s", " ", "p", "a", "g", "e", " ", "d", "i", "s", "c",
    "u", "s", "s", "e", "s", " ">>
S_DotSpace ==
  <<".", " ">>
S_TheMainTopicIs ==
  <<"T", "h", "e", " ", "m", "a", "i", "n", " ", "t", "o", "p", "i", "c",
    " ", "i", "s", " ">>
S_Ellipsis ==
  <<".", ".", ".">>
S_undefined ==
  <<"u", "n", "d", "e", "f", "i", "n", "e", "d">>
S_HopeThatHelps ==
  <<" ", "H", "o", "p", "e", " ", "t", "h", "a", "t", " ", "h", "e", "l",
    "p", "s", "!">>
S_ParaSep ==
  <<"\n", "\n">>
S_casual ==
  <<"c", "a", "s", "u", "a", "l">>
S_formal ==
  <<"f", "o", "r", "m", "a", "l">>
S_friendly ==
  <<"f", "r", "i", "e", "n", "d", "l", "y">>
S_will_not ==
  <<"w", "i", "l", "l", " ", "n", "o", "t">>
S_wont ==
  <<"w", "o", "n", "'", "t">>
S_cannot ==
  <<"c", "a", "n", "n", "o", "t">>
S_cant ==
  <<"c", "a", "n", "'", "t">>
S_do_not ==
  <<"d", "o", " ", "n", "o", "t">>
S_dont ==
  <<"d", "o", "n", "'", "t">>

\* the dictionary of simplifyText, in insertion order
simplifications ==
  << <<<<"u", "t", "i", "l", "i", "z", "e">>,
       <<"u", "s", "e">>>>,
     <<<<"i", "m", "p", "l", "e", "m", "e", "n", "t">>,
       <<"u", "s", "e">>>>,
     <<<<"s", "u", "f", "f", "i", "c", "i", "e", "n", "t">>,
       <<"e", "n", "o", "u", "g", "h">>>>,
     <<<<"d", "e", "m", "o", "n", "s", "t", "r", "a", "t", "e">>,
       <<"s", "h", "o", "w">>>>,
     <<<<"a", "d", "d", "i", "t", "i", "o", "n", "a", "l", "l", "y">>,
       <<"a", "l", "s", "o">>>>,
     <<<<"c", "o", "n", "s", "e", "q", "u", "e", "n", "t", "l", "y">>,
       <<"s", "o">>>>,
     <<<<"n", "e", "v", "e", "r", "t", "h", "e", "l", "e", "s", "s">>,
       <<"s", "t", "i", "l", "l">>>>,
     <<<<"s", "u", "b", "s", "e", "q", "u", "e", "n", "t", "l", "y">>,
       <<"l", "a", "t", "e", "r">>>> >>
S_simpler ==
  <<"s", "i", "m", "p", "l", "e", "r">>

(***************************************************************************)
(* String primitives of JavaScript used by background.js                   *)
(***************************************************************************)
SetMin(S) == CHOOSE x \in S : \A y \in S : x <= y
SetMax(S) == CHOOSE x \in S : \A y \in S : x >= y

\* white space as String.prototype.trim and the regular expression \s see it
IsSpace(c) == c \in {" ", "\n", "\t"}

UpperCase == <<"A", "B", "C", "D", "E", "F", "G", "H", "I", "J", "K", "L", "M",
               "N", "O", "P", "Q", "R", "S", "T", "U", "V", "W", "X", "Y", "Z">>
LowerCase == <<"a", "b", "c", "d", "e", "f", "g", "h", "i", "j", "k", "l", "m",
               "n", "o", "p", "q", "r", "s", "t", "u", "v", "w", "x", "y", "z">>
Digits == {"0", "1", "2", "3", "4", "5", "6", "7", "8", "9"}

\* the class \w of regular expressions
IsWordChar(c) ==
  \/ \E i \in 1..26 : c = UpperCase[i] \/ c = LowerCase[i]
  \/ c \in Digits
  \/ c = "_"

LowerOf(c) ==
  IF \E i \in 1..26 : c = UpperCase[i]
    THEN LowerCase[CHOOSE i \in 1..26 : c = UpperCase[i]]
    ELSE c

\* String.prototype.toLowerCase
toLowerCase(s) == [i \in 1..Len(s) |-> LowerOf(s[i])]

\* String.prototype.trim
trim(s) ==
  LET keep == {i \in 1..Len(s) : ~ IsSpace(s[i])}
  IN  IF keep = {} THEN <<>> ELSE SubSeq(s, SetMin(keep), SetMax(keep))

\* String.prototype.startsWith
startsWith(s, p) == Len(p) <= Len(s) /\ SubSeq(s, 1, Len(p)) = p

\* p occurs in s at position i (1-based)
MatchAt(s, p, i) == i + Len(p) - 1 <= Len(s) /\ SubSeq(s, i, i + Len(p) - 1) = p

\* first position >= from at which p occurs in s, 0 when there is none
IndexFrom(s, p, from) ==
  LET hits == {i \in from..(Len(s) + 1) : MatchAt(s, p, i)}
  IN  IF hits = {} THEN 0 ELSE SetMin(hits)

\* String.prototype.includes
includes(s, p) == IndexFrom(s, p, 1) # 0

\* String.prototype.substring(0, n)
substring0(s, n) == SubSeq(s, 1, IF n < Len(s) THEN n ELSE Len(s))

\* faulty variant: every occurrence is replaced
replaceFirstAsGlobal(s, p, r) ==
  LET RECURSIVE all(_)
      all(t) == LET i == IndexFrom(t, p, 1)
                IN  IF i = 0 THEN t
                    ELSE SubSeq(t, 1, i - 1) \o r \o all(SubSeq(t, i + Len(p), Len(t)))
  IN  all(s)

\* String.prototype.replace with a string pattern: the first occurrence only
replaceFirst(s, p, r) ==
  LET i == IndexFrom(s, p, 1)
  IN  IF i = 0 THEN s
      ELSE SubSeq(s, 1, i - 1) \o r \o SubSeq(s, i + Len(p), Len(s))

\* faulty variant: only the first occurrence is replaced
replaceAllAsFirst(s, p, r) ==
  LET i == IndexFrom(s, p, 1)
  IN  IF i = 0 THEN s
      ELSE SubSeq(s, 1, i - 1) \o r \o SubSeq(s, i + Len(p), Len(s))

RECURSIVE replaceAll(_, _, _)
\* String.prototype.replace with a /p/g pattern of literal characters: every
\* occurrence, scanning left to right past each match
replaceAll(s, p, r) ==
  LET i == IndexFrom(s, p, 1)
  IN  IF i = 0 THEN s
      ELSE SubSeq(s, 1, i - 1) \o r
             \o replaceAll(SubSeq(s, i + Len(p), Len(s)), p, r)

\* /\bword\b/gi matches at position i of s
\* faulty variant: the word is matched with regard to letter case
WordMatchAtCase(s, word, i) ==
  /\ MatchAt(s, word, i)
  /\ (i = 1 \/ ~ IsWordChar(s[i - 1]))
  /\ (i + Len(word) > Len(s) \/ ~ IsWordChar(s[i + Len(word)]))

WordMatchAt(s, word, i) ==
  /\ MatchAt(toLowerCase(s), word, i)
  /\ (i = 1 \/ ~ IsWordChar(s[i - 1]))
  /\ (i + Len(word) > Len(s) \/ ~ IsWordChar(s[i + Len(word)]))

RECURSIVE replaceWord(_, _, _, _)
\* s.replace(new RegExp('\\b' + word + '\\b', 'gi'), r), from position from
replaceWord(s, word, r, from) ==
  LET hits == {i \in from..Len(s) : WordMatchAt(s, word, i)}
  IN  IF hits = {} THEN s
      ELSE LET i == SetMin(hits)
           IN  replaceWord(SubSeq(s, 1, i - 1) \o r \o SubSeq(s, i + Len(word), Len(s)),
                           word, r, i + Len(r))

RECURSIVE split(_, _)
\* String.prototype.split on a one-character separator
split(s, c) ==
  LET i == IndexFrom(s, <<c>>, 1)
  IN  IF i = 0 THEN <<s>>
      ELSE <<SubSeq(s, 1, i - 1)>> \o split(SubSeq(s, i + 1, Len(s)), c)

RECURSIVE join(_, _)
\* Array.prototype.join
join(parts, sep) ==
  IF Len(parts) = 0 THEN <<>>
  ELSE IF Len(parts) = 1 THEN parts[1]
  ELSE parts[1] \o sep \o join(Tail(parts), sep)

\* a template literal's rendering of a value: `${v}`
template(v) == IF v = Undefined THEN S_undefined ELSE v.s

(***************************************************************************)
(* selectKeyPoints (background.js 310-326)                                 *)
(***************************************************************************)

\* faulty variant: the tie-break prefers the shorter text
compareShorterFirst(a, b) ==
  IF a.importance # b.importance
    THEN a.importance - b.importance
    ELSE Len(a.text) - Len(b.text)

\* the comparator handed to Array.prototype.sort
compare(a, b) ==
  IF a.importance # b.importance
    THEN a.importance - b.importance
    ELSE Len(b.text) - Len(a.text)

\* faulty variant: an element is placed before the elements it compares equal to
insertPosUnstable(els, perm, i) ==
  LET before == {k \in 0..Len(perm) :
                   \A m \in (k+1)..Len(perm) : compare(els[perm[m]], els[i]) >= 0}
  IN  CHOOSE k \in before : \A k2 \in before : k <= k2

\* Array.prototype.sort is stable: element i goes after every element already
\* placed that does not compare greater than it.  The result is the number of
\* placed elements that stay in front of it.
insertPos(els, perm, i) ==
  LET before == {k \in 0..Len(perm) :
                   \A m \in (k+1)..Len(perm) : compare(els[perm[m]], els[i]) > 0}
  IN  CHOOSE k \in before : \A k2 \in before : k <= k2

RECURSIVE sortPerm(_, _)
\* the order sort() produces for the first n elements, as positions of els
sortPerm(els, n) ==
  IF n = 0 THEN <<>>
  ELSE LET perm == sortPerm(els, n - 1)
           k    == insertPos(els, perm, n)
       IN  SubSeq(perm, 1, k) \o <<n>> \o SubSeq(perm, k + 1, Len(perm))

\* faulty variant: one entry fewer is kept
sliceFour(s) == SubSeq(s, 1, IF Len(s) < 4 THEN Len(s) ELSE 4)

\* sortedElements.slice(0, 5)
sliceFive(s) == SubSeq(s, 1, IF Len(s) < 5 THEN Len(s) ELSE 5)

\* positions (in textElements) of the selected points, in output order
selectedPositions(textElements) ==
  sliceFive(sortPerm(textElements, Len(textElements)))

selectKeyPoints(textElements) ==
  LET sel == selectedPositions(textElements)
  IN  [k \in 1..Len(sel) |-> textElements[sel[k]]]

(***************************************************************************)
(* Completions: a call either returns a value or throws an Error           *)
(***************************************************************************)
Return(v) == [kind |-> "return", value |-> v]
Throw(msg) == [kind |-> "throw", message |-> msg]

\* the || operator on a possibly missing array / string
orEmptyArray(v) == IF v = Undefined THEN Arr(<<>>) ELSE v
orEmptyString(v) == IF v = Undefined \/ v = Str(<<>>) THEN Str(<<>>) ELSE v

\* truthiness of an option value that is a string or missing
Truthy(v) == v # Undefined /\ v # Str(<<>>)

(***************************************************************************)
(* generateMockSummary (background.js 334-356)                             *)
(***************************************************************************)
IsHeading(el) == el.type = "heading"
IsParagraph(el) == el.type = "paragraph"

\* faulty variant: the snippet is cut one character early
snippet99(firstPara) ==
  IF Len(firstPara) > 100 THEN substring0(firstPara, 99) \o S_Ellipsis ELSE firstPara

\* firstPara.length > 100 ? firstPara.substring(0, 100) + '...' : firstPara
snippet(firstPara) ==
  IF Len(firstPara) > 100 THEN substring0(firstPara, 100) \o S_Ellipsis ELSE firstPara

generateMockSummary(textElements, title) ==
  LET headings   == SelectSeq(textElements, IsHeading)
      paragraphs == SelectSeq(textElements, IsParagraph)
      s0 == S_ThisPageDiscusses \o template(title) \o S_DotSpace
      s1 == IF Len(headings) > 0
              THEN s0 \o S_TheMainTopicIs \o headings[1].text \o S_DotSpace
              ELSE s0
  IN  IF Len(paragraphs) > 0 THEN s1 \o snippet(paragraphs[1].text) ELSE s1

(***************************************************************************)
(* fallbackSummarize (background.js 108-120); textElements and title are   *)
(* JavaScript values.  Spreading a missing list in selectKeyPoints throws. *)
(***************************************************************************)
fallbackSummarize(textElements, title) ==
  IF ~ IsArr(textElements)
    THEN Throw("textElements is not iterable")
    ELSE Return([success   |-> TRUE,
                 summary   |-> Str(generateMockSummary(textElements.a, title)),
                 keyPoints |-> selectKeyPoints(textElements.a)])

(***************************************************************************)
(* summarizeContent, primary path (background.js 70-94)                    *)
(***************************************************************************)
IsBullet(line) == startsWith(trim(line), <<"*">>) \/ startsWith(trim(line), <<"-">>)

\* line.replace(/^\s*[*-]\s*/, '').trim()
stripBullet(line) ==
  LET lead == {i \in 1..Len(line) : ~ IsSpace(line[i])}
  IN  IF lead # {} /\ line[SetMin(lead)] \in {"*", "-"}
        THEN trim(SubSeq(line, SetMin(lead) + 1, Len(line)))
        ELSE trim(line)

\* faulty variant: the last fragment that contains the text gives the metadata
keyPointOfLineLast(line, textElements) ==
  LET text     == stripBullet(line)
      matching == {i \in 1..Len(textElements) : includes(textElements[i].text, text)}
  IN  IF matching # {}
        THEN [text       |-> text,
              importance |-> textElements[SetMax(matching)].importance,
              type       |-> textElements[SetMax(matching)].type]
        ELSE [text |-> text, importance |-> 3, type |-> "paragraph"]

keyPointOfLine(line, textElements) ==
  LET text     == stripBullet(line)
      matching == {i \in 1..Len(textElements) : includes(textElements[i].text, text)}
  IN  IF matching # {}
        THEN [text       |-> text,
              importance |-> textElements[SetMin(matching)].importance,
              type       |-> textElements[SetMin(matching)].type]
        ELSE [text |-> text, importance |-> 3, type |-> "paragraph"]

keyPointsOfSummary(summary, textElements) ==
  LET bullets == SelectSeq(split(summary, "\n"), IsBullet)
  IN  [k \in 1..Len(bullets) |-> keyPointOfLine(bullets[k], textElements)]

\* textElements.map(el => el.text).join('\n\n')
textToSummarize(textElements) ==
  join([k \in 1..Len(textElements) |-> textElements[k].text], S_ParaSep)

\* lines 70-94, given the value summarizer.summarize resolved with and the
\* local textElements; summary.split throws on a value that is not a string
summarizeResult(summary, textElements) ==
  IF ~ IsStr(summary)
    THEN Throw("Cannot read properties of undefined (reading 'split')")
    ELSE Return([success   |-> TRUE,
                 summary   |-> summary,
                 keyPoints |-> keyPointsOfSummary(summary.s, textElements.a)])

(***************************************************************************)
(* simplifyText, adjustTone, fallbackRewrite (background.js 188-204,       *)
(* 363-421); text is a JavaScript value                                    *)
(***************************************************************************)
RECURSIVE simplifyFrom(_, _)
simplifyFrom(s, k) ==
  IF k > Len(simplifications) THEN s
  ELSE simplifyFrom(replaceWord(s, simplifications[k][1], simplifications[k][2], 1), k + 1)

simplifyText(text) ==
  IF ~ IsStr(text)
    THEN Throw("Cannot read properties of undefined (reading 'replace')")
    ELSE Return(Str(simplifyFrom(text.s, 1)))

\* faulty variant: an unrecognised tone is treated like 'friendly'
toneDefaultFriendly(text) == Return(Str(template(text) \o S_HopeThatHelps))

\* default: return text (lines 418-419)
toneDefault(text) == Return(text)

adjustTone(text, tone) ==
  LET t == toLowerCase(tone.s)
  IN  IF t = S_casual THEN
        IF ~ IsStr(text)
          THEN Throw("Cannot read properties of undefined (reading 'replace')")
          ELSE Return(Str(replaceFirst(replaceFirst(replaceFirst(
                            text.s, S_will_not, S_wont), S_cannot, S_cant), S_do_not, S_dont)))
      ELSE IF t = S_formal THEN
        IF ~ IsStr(text)
          THEN Throw("Cannot read properties of undefined (reading 'replace')")
          ELSE Return(Str(replaceAll(replaceAll(replaceAll(
                            text.s, S_wont, S_will_not), S_cant, S_cannot), S_dont, S_do_not)))
      ELSE IF t = S_friendly THEN
        Return(Str(template(text) \o S_HopeThatHelps))
      ELSE toneDefault(text)

\* faulty variant: the result reports the rewritten text as the original
rewriteResultSwapped(text, rewritten) ==
  [success |-> TRUE, original |-> rewritten, rewritten |-> rewritten]

\* { success: true, original: text, rewritten: ... } (lines 170-174, 199-203)
rewriteResult(text, rewritten) ==
  [success |-> TRUE, original |-> text, rewritten |-> rewritten]

fallbackRewrite(text, options) ==
  LET simplified == IF options.simplify THEN simplifyText(text) ELSE Return(text)
  IN  IF simplified.kind = "throw" THEN simplified
      ELSE LET toned == IF Truthy(options.tone)
                          THEN adjustTone(simplified.value, options.tone)
                          ELSE simplified
           IN  IF toned.kind = "throw" THEN toned
               ELSE Return(rewriteResult(text, toned.value))

\* the options parameter of rewriteText defaults to {} when it is missing;
\* a missing simplify is falsy and a missing tone or length is undefined
EmptyOptions == [simplify |-> FALSE, tone |-> Undefined, length |-> Undefined]
defaultOptions(options) == IF options = Undefined THEN EmptyOptions ELSE options

\* lines 156-165: the options handed to rewriter.rewrite
rewriteOptions(options) ==
  [complexity |-> IF options.simplify THEN Str(S_simpler) ELSE Undefined,
   tone       |-> IF Truthy(options.tone) THEN options.tone ELSE Undefined]

(***************************************************************************)
(* Texts used as inputs                                                    *)
(***************************************************************************)
T_Demo ==
  <<"D", "e", "m", "o">>
T_Intro ==
  <<"I", "n", "t", "r", "o">>
T_Topic ==
  <<"T", "o", "p", "i", "c">>
T_Formal ==
  <<"F", "o", "r", "m", "a", "l">>
T_angry ==
  <<"a", "n", "g", "r", "y">>
T_Contractions ==
  <<"I", " ", "d", "o", "n", "'", "t", " ", "t", "h", "i", "n", "k", " ",
    "w", "e", " ", "c", "a", "n", "'", "t", " ", "d", "o", " ", "t", "h",
    "i", "s", ".", " ", "D", "o", "n", "'", "t", ".">>
T_Expanded ==
  <<"W", "e", " ", "d", "o", " ", "n", "o", "t", " ", "u", "t", "i", "l",
    "i", "z", "e", " ", "i", "t", ".", " ", "W", "e", " ", "d", "o", " ",
    "n", "o", "t", ".">>
T_Bullets6 ==
  <<"*", "a", "\n", "*", "b", "\n", "*", "c", "\n", "*", "d", "\n", "*",
    "e", "\n", "*", "f">>
T_Markdown ==
  <<"K", "e", "y", ":", "\n", "*", " ", "I", "n", "t", "r", "o", "\n", " ",
    "-", " ", "z", "z", " ", "\n", "p", "l", "a", "i", "n">>
\* a line that is no bullet, a bullet whose text two headings contain, and a
\* bullet whose text no fragment contains
T_Either ==
  <<"n", "\n", "-", "o", "\n", "*", " ", "q">>
T_Rewritten ==
  <<"D", "o", "n", "e", ".">>

(***************************************************************************)
(* State                                                                   *)
(***************************************************************************)
VARIABLES
  message,      \* the message the listener is handling
  pc,           \* position of the handler: idle, availability, create, call,
                \* settled (promise settled), responded (sendResponse called)
  promise,      \* the promise summarizeContent / rewriteText returned
  response,     \* the argument of sendResponse
  log,          \* what happened at the language service for this message
  svcArg,       \* arguments of the summarize / rewrite call made on the service
  returned,     \* value the service's summarize / rewrite call resolved with
  channel,      \* whether the listener returned true for the message, and how
                \* often sendResponse was called for it
  rankInput,    \* the textElements argument of a selectKeyPoints call
  rankPos,      \* positions of rankInput selected by that call
  rankOutput,   \* the list the call returned
  rankPc,       \* "ready" before the call, "returned" after it
  rankEffect,   \* the array textElements as the call left it, and the summary
                \* of a fallbackSummarize call
  rwText,       \* the text argument of a fallbackRewrite call
  rwOptions,    \* its options argument
  rwOut,        \* what the call returned or threw
  rwOut2,       \* what fallbackRewrite did on the rewritten text of rwOut
  rwPc,         \* "ready", "once" after the call, "twice" after the second
  doc,          \* the page: a tree of elements, text nodes and highlight spans
  whatsitState, \* the content script's global state
  sidebar,      \* the injected sidebar containers and the collapsed class
  panel,        \* what #whatsit-content holds
  inflight,     \* the analysis passes waiting for their response
  started,      \* how many analysis passes were started
  applied,      \* how many times applyHighlights was called
  active,       \* the highlights and panel entries that carry the class active
  delivered,    \* how many responses were delivered, and the last of them
  hist,         \* what the last direct call was and what it found
  answer,       \* the argument of the content listener's last sendResponse
  toggles,      \* the number of toggle messages received so far, modulo 2
  popup,        \* the popup: open, or waiting for the answer to a command,
                \* or closed
  extracted,    \* which extractor was called on the document, and its result
  sidebarState, \* the sidebar script: its state object, what its summary
                \* panel displays and the requests it is waiting on
  timing        \* the timers of the emphasis with the seconds each has left,
                \* and the elements clicked less than the delay ago

handlerVars == <<message, pc, promise, response, log, svcArg, returned,
                 channel>>
rankVars == <<rankInput, rankPos, rankOutput, rankPc, rankEffect>>
toneVars == <<rwText, rwOptions, rwOut, rwOut2, rwPc>>
contentVars == <<doc, whatsitState, sidebar, panel, inflight, started,
                 applied, active, delivered, hist>>
listenerVars == <<answer, toggles, popup>>
extractVars == <<extracted>>
scriptVars == <<sidebarState>>
timerVars == <<timing>>
vars == <<message, pc, promise, response, log, svcArg, returned, channel,
          rankInput, rankPos, rankOutput, rankPc, rankEffect,
          rwText, rwOptions, rwOut, rwOut2, rwPc,
          doc, whatsitState, sidebar, panel, inflight, started,
          applied, active, delivered, hist,
          answer, toggles, popup, extracted, sidebarState, timing>>

\* what the actions of one component leave alone
notPage == <<handlerVars, rankVars, toneVars, extractVars, scriptVars>>
notContent == <<notPage, listenerVars>>
notHandler == <<rankVars, toneVars, contentVars, listenerVars, extractVars,
               scriptVars, timerVars>>
notRank == <<handlerVars, toneVars, contentVars, listenerVars, extractVars,
               scriptVars, timerVars>>
notTone == <<handlerVars, rankVars, contentVars, listenerVars, extractVars,
               scriptVars, timerVars>>

NoMessage == [action |-> "none"]
NoResponse == [t |-> "none"]
Pending == [state |-> "pending"]
NoChannel == [kept |-> FALSE, calls |-> 0]

HandlerIdle ==
  /\ message = NoMessage
  /\ pc = "idle"
  /\ promise = Pending
  /\ response = NoResponse
  /\ log = <<>>
  /\ svcArg = Undefined
  /\ returned = Undefined
  /\ channel = NoChannel

RankIdle ==
  /\ rankInput = <<>>
  /\ rankPos = <<>>
  /\ rankOutput = <<>>
  /\ rankPc = "off"
  /\ rankEffect = [textElements |-> <<>>, summary |-> Undefined]

\* const whatsitState = {...} (content script, lines 185-190)
InitialState ==
  [isActive |-> FALSE, highlights |-> <<>>,
   sidebarInjected |-> FALSE, sidebarVisible |-> FALSE]

NoSidebar == [containers |-> 0, collapsed |-> TRUE]
NoPanel == [kind |-> "none", summary |-> 0, entries |-> <<>>]
NoHistory ==
  [op |-> "none", keyPoints |-> <<>>, repeat |-> FALSE, once |-> Undefined,
   before |-> Undefined, prior |-> Undefined, util |-> FALSE,
   threw |-> FALSE]

NoneDelivered ==
  [count |-> 0, last |-> Undefined, overlapped |-> FALSE, untouched |-> FALSE]

\* the popup before any of its buttons is clicked
PopupOpen == [state |-> "open", command |-> "none", answered |-> FALSE]

ListenerIdle ==
  /\ answer = Undefined
  /\ toggles = 0
  /\ popup = PopupOpen

\* const state = { activeTab: 'summary-panel', ... } of the sidebar script
\* (lines 7-14) before DOMContentLoaded: no page data, nothing requested
InitialSidebarState ==
  [loaded |-> FALSE, activeTab |-> "summary-panel", pageData |-> Undefined,
   shown |-> {}, asked |-> 0, requested |-> 0, sent |-> 0, fetches |-> 0]

NoTimers == [timers |-> {}, recent |-> {}, clicks |-> 0]

ExtractIdle ==
  /\ extracted = Undefined
  /\ sidebarState = InitialSidebarState
  /\ timing = NoTimers

ContentIdle ==
  /\ ListenerIdle
  /\ ExtractIdle
  /\ doc = Undefined
  /\ whatsitState = InitialState
  /\ sidebar = NoSidebar
  /\ panel = NoPanel
  /\ inflight = {}
  /\ started = 0
  /\ applied = 0
  /\ active = {}
  /\ delivered = NoneDelivered
  /\ hist = NoHistory

ToneIdle ==
  /\ rwText = <<>>
  /\ rwOptions = EmptyOptions
  /\ rwOut = Undefined
  /\ rwOut2 = Undefined
  /\ rwPc = "off"

(***************************************************************************)
(* Inputs of the handler                                                   *)
(***************************************************************************)
MaxElems == 2

Intro == [type |-> "heading",   text |-> T_Intro,       importance |-> 2]
Topic == [type |-> "heading",   text |-> T_Topic,       importance |-> -1]
Para101 == [type |-> "paragraph", text |-> Rep("x", 101), importance |-> 8]
Para100 == [type |-> "paragraph", text |-> Rep("y", 100), importance |-> 10]
Item == [type |-> "list_item", text |-> <<"z", "z">>,  importance |-> 15]

Fragments == {Intro, Topic, Para101, Para100, Item}

\* a page with more fragments than the ranker keeps
LongPage == <<Intro, Para101, Item, Topic, Para100, Item, Intro>>

FragmentLists ==
  UNION { [1..n -> Fragments] : n \in 0..MaxElems } \cup {LongPage}

PageData ==
  {Undefined} \cup
  [title : {Undefined, Str(T_Demo)},
   textElements : {Undefined} \cup {Arr(l) : l \in FragmentLists}]

\* values summarizer.summarize may resolve with
SummaryValues ==
  {Undefined, Str(<<>>), Str(T_Markdown), Str(T_Bullets6), Str(T_Either)}

RewriteTexts == {Undefined, Str(<<>>), Str(T_Contractions), Str(T_Expanded)}

Tones == {Undefined, Str(S_casual), Str(S_formal), Str(S_friendly),
          Str(T_Formal), Str(T_angry)}

\* the length option the tests of rewriteText pass
S_shorter ==
  <<"s", "h", "o", "r", "t", "e", "r">>
S_longer ==
  <<"l", "o", "n", "g", "e", "r">>
Lengths == {Undefined, Str(S_shorter), Str(S_longer)}

Options == {Undefined} \cup [simplify : BOOLEAN, tone : Tones, length : Lengths]

\* values rewriter.rewrite may resolve with
RewriteValues == {Undefined, Str(<<>>), Str(T_Rewritten)}

\* values availability() may resolve with
AvailabilityValues == {"available", "downloadable", "downloading", "unavailable"}

(***************************************************************************)
(* The handlers, between two suspension points                             *)
(***************************************************************************)
\* a throw inside try runs the catch block
tryCatch(body, handler) == IF body.kind = "throw" THEN handler ELSE body

\* lines 36-37: the locals of summarizeContent
localTextElements(pageData) == orEmptyArray(pageData.textElements)
localTitle(pageData) == orEmptyString(pageData.title)

\* lines 95-99: the catch block of summarizeContent
summarizeCatch(pageData) ==
  fallbackSummarize(pageData.textElements, pageData.title)

\* lines 45 and 54: the early fallback of summarizeContent
summarizeEarly(pageData) ==
  tryCatch(fallbackSummarize(localTextElements(pageData), localTitle(pageData)),
           summarizeCatch(pageData))

\* faulty variant: the catch block of rewriteText rethrows
rewriteCatchRethrow(text, options) == Throw("rewrite failed")

\* lines 175-179: the catch block of rewriteText
rewriteCatch(text, options) == fallbackRewrite(text, options)

\* lines 135 and 144: the early fallback of rewriteText
rewriteEarly(text, options) ==
  tryCatch(fallbackRewrite(text, options), rewriteCatch(text, options))

IsSummarize == message.action = "summarize"

early(m) ==
  IF m.action = "summarize" THEN summarizeEarly(m.text)
  ELSE rewriteEarly(m.text, defaultOptions(m.options))

catch(m) ==
  IF m.action = "summarize" THEN summarizeCatch(m.text)
  ELSE rewriteCatch(m.text, defaultOptions(m.options))

\* the async function ends: its promise is fulfilled or rejected
Settle(c) ==
  /\ promise' = IF c.kind = "return"
                  THEN [state |-> "fulfilled", value |-> c.value]
                  ELSE [state |-> "rejected", message |-> c.message]
  /\ pc' = "settled"

(***************************************************************************)
(* Actions                                                                 *)
(***************************************************************************)
\* listener, action 'summarize': summarizeContent(message.text) runs up to
\* its first await.  present: 'Summarizer' in self.
ReceiveSummarize(pageData, present) ==
  /\ pc = "idle"
  /\ message' = [action |-> "summarize", text |-> pageData, options |-> Undefined]
  /\ response' = NoResponse
  /\ returned' = Undefined
  /\ svcArg' = Undefined
  /\ channel' = [kept |-> TRUE, calls |-> 0]
  /\ IF pageData = Undefined
       THEN /\ log' = <<>>
            /\ Settle(Throw("Cannot read properties of undefined (reading 'textElements')"))
       ELSE IF ~ present
         THEN /\ log' = <<"absent">>
              /\ Settle(summarizeEarly(pageData))
         ELSE /\ log' = <<"availability">>
              /\ pc' = "availability"
              /\ promise' = Pending
  /\ UNCHANGED notHandler

\* listener, action 'rewrite': rewriteText(message.text, message.options)
\* runs up to its first await.  present: 'Rewriter' in self.
ReceiveRewrite(text, options, present) ==
  /\ pc = "idle"
  /\ message' = [action |-> "rewrite", text |-> text, options |-> options]
  /\ response' = NoResponse
  /\ returned' = Undefined
  /\ svcArg' = Undefined
  /\ channel' = [kept |-> TRUE, calls |-> 0]
  /\ IF ~ present
       THEN /\ log' = <<"absent">>
            /\ Settle(rewriteEarly(text, defaultOptions(options)))
       ELSE /\ log' = <<"availability">>
            /\ pc' = "availability"
            /\ promise' = Pending
  /\ UNCHANGED notHandler

\* faulty variant: no state of the service stops the handler
unavailableNever(availability) == FALSE

\* availability === 'unavailable' (lines 52 and 142)
unavailable(availability) == availability = "unavailable"

\* availability() resolves with v
AvailabilityReturns(v) ==
  /\ pc = "availability"
  /\ IF unavailable(v)
       THEN /\ log' = log \o <<v>>
            /\ Settle(early(message))
       ELSE /\ log' = log \o <<v, "create">>
            /\ pc' = "create"
            /\ UNCHANGED promise
  /\ UNCHANGED <<message, response, svcArg, returned, channel, notHandler>>

\* availability() throws or rejects
AvailabilityThrows ==
  /\ pc = "availability"
  /\ log' = log \o <<"throw">>
  /\ Settle(catch(message))
  /\ UNCHANGED <<message, response, svcArg, returned, channel, notHandler>>

\* create() resolves: with a usable instance, or with a value that has no
\* summarize / rewrite method, on which the call throws a TypeError
CreateReturns(usable) ==
  /\ pc = "create"
  /\ IF usable
       THEN /\ log' = log \o <<"instance", IF IsSummarize THEN "summarize" ELSE "rewrite">>
            /\ svcArg' = IF IsSummarize
                           THEN [text |-> Str(textToSummarize(localTextElements(message.text).a))]
                           ELSE [text    |-> message.text,
                                 options |-> rewriteOptions(defaultOptions(message.options))]
            /\ pc' = "call"
            /\ UNCHANGED promise
       ELSE /\ log' = log \o <<"no instance">>
            /\ Settle(catch(message))
            /\ UNCHANGED svcArg
  /\ UNCHANGED <<message, response, returned, channel, notHandler>>

\* create() throws or rejects
CreateThrows ==
  /\ pc = "create"
  /\ log' = log \o <<"throw">>
  /\ Settle(catch(message))
  /\ UNCHANGED <<message, response, svcArg, returned, channel, notHandler>>

\* summarizer.summarize resolves with v (lines 70-94)
SummarizeReturns(v) ==
  /\ pc = "call"
  /\ IsSummarize
  /\ log' = log \o <<"value">>
  /\ returned' = v
  /\ Settle(tryCatch(summarizeResult(v, localTextElements(message.text)),
                     catch(message)))
  /\ UNCHANGED <<message, response, svcArg, channel, notHandler>>

\* rewriter.rewrite resolves with v (lines 168-174)
RewriteReturns(v) ==
  /\ pc = "call"
  /\ ~ IsSummarize
  /\ log' = log \o <<"value">>
  /\ returned' = v
  /\ Settle(Return(rewriteResult(message.text, v)))
  /\ UNCHANGED <<message, response, svcArg, channel, notHandler>>

\* summarizer.summarize / rewriter.rewrite throws or rejects
CallThrows ==
  /\ pc = "call"
  /\ log' = log \o <<"throw">>
  /\ Settle(catch(message))
  /\ UNCHANGED <<message, response, svcArg, returned, channel, notHandler>>

\* faulty variant: the rejection is handed on as it is
thenCatchRaw(p) ==
  IF p.state = "fulfilled" THEN p.value ELSE [error |-> p.message]

\* .then(result => sendResponse(result)).catch(error => sendResponse({
\* success: false, error: error.message })): what sendResponse is called with
\* (lines 10-11, 15-16, 20-21)
thenCatch(p) ==
  IF p.state = "fulfilled" THEN p.value
  ELSE [success |-> FALSE, error |-> p.message]

\* the listener's .then / .catch callback calls sendResponse
SendResponse ==
  /\ pc = "settled"
  /\ response' = thenCatch(promise)
  /\ channel' = [channel EXCEPT !.calls = @ + 1]
  /\ pc' = "responded"
  /\ UNCHANGED <<message, promise, log, svcArg, returned, notHandler>>

Init == HandlerIdle /\ RankIdle /\ ToneIdle /\ ContentIdle

Next ==
  \/ \E pageData \in PageData, present \in BOOLEAN : ReceiveSummarize(pageData, present)
  \/ \E text \in RewriteTexts, options \in Options, present \in BOOLEAN :
       ReceiveRewrite(text, options, present)
  \/ \E v \in AvailabilityValues : AvailabilityReturns(v)
  \/ AvailabilityThrows
  \/ \E usable \in BOOLEAN : CreateReturns(usable)
  \/ CreateThrows
  \/ \E v \in SummaryValues : SummarizeReturns(v)
  \/ \E v \in RewriteValues : RewriteReturns(v)
  \/ CallThrows
  \/ SendResponse

Spec == Init /\ [][Next]_vars

(***************************************************************************)
(* Ranker on its own: every fragment list up to MaxRankLen                 *)
(***************************************************************************)
MaxRankLen == 6

\* importances the extractor produces: a boosted h1 (1 - 2) and a paragraph
RankFragments ==
  { [type |-> "heading",   text |-> <<"a">>,      importance |-> -1],
    [type |-> "heading",   text |-> <<"b">>,      importance |-> -1],
    [type |-> "heading",   text |-> <<"c", "c">>, importance |-> -1],
    [type |-> "paragraph", text |-> <<"a">>,      importance |-> 10],
    [type |-> "paragraph", text |-> <<"c", "c">>, importance |-> 10] }

RankLists == UNION { [1..n -> RankFragments] : n \in 0..MaxRankLen }

RankInit ==
  /\ rankInput \in RankLists
  /\ rankPos = <<>>
  /\ rankOutput = <<>>
  /\ rankPc = "ready"
  /\ rankEffect = [textElements |-> rankInput, summary |-> Undefined]
  /\ HandlerIdle
  /\ ToneIdle
  /\ ContentIdle

\* the arrays a call works on: textElements is the argument, sortedElements
\* the local of selectKeyPoints
Arrays(textElements) ==
  [textElements |-> textElements, sortedElements |-> <<>>]

\* Array.prototype.sort orders the array it is called on, and returns it
sorted(els) == [k \in 1..Len(els) |-> els[sortPerm(els, Len(els))[k]]]

\* faulty variant: textElements.sort(...), the argument itself is sorted
sortArgument(arrays) ==
  [arrays EXCEPT !.textElements = sorted(@),
                 !.sortedElements = sorted(arrays.textElements)]

\* const sortedElements = [...textElements].sort(...) (lines 312-319): the
\* array that is sorted is a copy of the argument
sortCopy(arrays) ==
  [arrays EXCEPT !.sortedElements = sorted(arrays.textElements)]

\* selectKeyPoints (lines 310-326) with what it leaves of the arrays
selectKeyPointsIn(arrays) ==
  LET after == sortCopy(arrays)
  IN  [arrays |-> after, value |-> sliceFive(after.sortedElements)]

\* fallbackSummarize (lines 108-120) with what it leaves of the arrays:
\* generateMockSummary reads the argument after selectKeyPoints has run
fallbackSummarizeIn(arrays, title) ==
  LET selected == selectKeyPointsIn(arrays)
  IN  [arrays |-> selected.arrays,
       value |-> [success |-> TRUE,
                  summary |-> Str(generateMockSummary(
                                    selected.arrays.textElements, title)),
                  keyPoints |-> selected.value]]

CallSelectKeyPoints ==
  /\ rankPc = "ready"
  /\ rankPos' = selectedPositions(rankInput)
  /\ rankOutput' = selectKeyPoints(rankInput)
  /\ rankPc' = "returned"
  /\ rankEffect' =
       [textElements |-> selectKeyPointsIn(Arrays(rankInput)).arrays.textElements,
        summary |-> Undefined]
  /\ UNCHANGED <<rankInput, notRank>>

\* a call of fallbackSummarize(textElements, 'T')
CallFallbackSummarize ==
  /\ rankPc = "ready"
  /\ LET call == fallbackSummarizeIn(Arrays(rankInput), Str(<<"T">>))
     IN  /\ rankOutput' = call.value.keyPoints
         /\ rankEffect' = [textElements |-> call.arrays.textElements,
                           summary |-> call.value.summary]
  /\ rankPos' = selectedPositions(rankInput)
  /\ rankPc' = "summarized"
  /\ UNCHANGED <<rankInput, notRank>>

RankNext ==
  \/ CallSelectKeyPoints
  \/ CallFallbackSummarize

RankSpec == RankInit /\ [][RankNext]_vars

(***************************************************************************)
(* fallbackRewrite on its own: texts put together from up to MaxTokens     *)
(* pieces, every tone and both values of simplify                          *)
(***************************************************************************)
MaxTokens == 2

\* "won't can't don't "
S_AllContractions ==
  <<"w", "o", "n", "'", "t", " ", "c", "a", "n", "'", "t", " ", "d", "o", "n", "'", "t", " ">>
\* "will not cannot do not "
S_AllPhrases ==
  <<"w", "i", "l", "l", " ", "n", "o", "t", " ", "c", "a", "n", "n", "o", "t", " ", "d", "o", " ", "n", "o", "t", " ">>

ToneTokens ==
  { S_wont, S_cant, S_dont, S_will_not, S_cannot, S_do_not, <<" ">>, <<"D">>,
    S_AllContractions, S_AllPhrases }

RECURSIVE TokenTexts(_)
TokenTexts(n) ==
  IF n = 0 THEN { <<>> }
  ELSE LET shorter == TokenTexts(n - 1)
       IN  shorter \cup { t \o k : t \in shorter, k \in ToneTokens }

ToneOptions == [simplify : BOOLEAN, tone : Tones, length : {Undefined}]

ToneInit ==
  /\ rwText \in TokenTexts(MaxTokens)
  /\ rwOptions \in ToneOptions
  /\ rwOut = Undefined
  /\ rwOut2 = Undefined
  /\ rwPc = "ready"
  /\ HandlerIdle
  /\ RankIdle
  /\ ContentIdle

\* fallbackRewrite(text, options)
CallFallbackRewrite ==
  /\ rwPc = "ready"
  /\ rwOut' = fallbackRewrite(Str(rwText), rwOptions)
  /\ rwPc' = "once"
  /\ UNCHANGED <<rwText, rwOptions, rwOut2, notTone>>

\* fallbackRewrite(result.rewritten, options): the rewrite of a rewrite
CallFallbackRewriteAgain ==
  /\ rwPc = "once"
  /\ rwOut.kind = "return"
  /\ rwOut2' = fallbackRewrite(rwOut.value.rewritten, rwOptions)
  /\ rwPc' = "twice"
  /\ UNCHANGED <<rwText, rwOptions, rwOut, notTone>>

ToneNext == CallFallbackRewrite \/ CallFallbackRewriteAgain

ToneSpec == ToneInit /\ [][ToneNext]_vars

(***************************************************************************)
(* Claims about the ranker                                                 *)
(***************************************************************************)
Min(a, b) == IF a < b THEN a ELSE b

\* x comes strictly before y in the ranking order of the keys
RanksBefore(x, y) ==
  \/ x.importance < y.importance
  \/ x.importance = y.importance /\ Len(x.text) > Len(y.text)

SameKeys(x, y) == x.importance = y.importance /\ Len(x.text) = Len(y.text)

Omitted == (1..Len(rankInput)) \ {rankPos[k] : k \in 1..Len(rankPos)}

\* C1: the output of selectKeyPoints is ordered by ascending importance and,
\* for equal importance, by descending text length (every adjacent pair x, y
\* has x.importance < y.importance, or equal importance and x at least as
\* long as y), and no omitted input fragment ranks strictly before an
\* included one.
C1_RankedOrder ==
  rankPc = "returned" =>
    /\ \A k \in 1..(Len(rankOutput) - 1) :
         \/ rankOutput[k].importance < rankOutput[k+1].importance
         \/ /\ rankOutput[k].importance = rankOutput[k+1].importance
            /\ Len(rankOutput[k].text) >= Len(rankOutput[k+1].text)
    /\ \A p \in Omitted : \A k \in 1..Len(rankOutput) :
         ~ RanksBefore(rankInput[p], rankOutput[k])

\* a call that had to use both sort keys and had to omit a fragment
C1_Witness ==
  /\ rankPc = "returned"
  /\ Omitted # {}
  /\ \E k \in 1..(Len(rankOutput) - 1) :
       /\ rankOutput[k].importance = rankOutput[k+1].importance
       /\ Len(rankOutput[k].text) > Len(rankOutput[k+1].text)
  /\ \E k \in 1..(Len(rankOutput) - 1) :
       rankOutput[k].importance < rankOutput[k+1].importance
  /\ \E i, j \in 1..Len(rankInput) : i < j /\ RanksBefore(rankInput[j], rankInput[i])

\* C2: for an input of n fragments selectKeyPoints returns exactly min(5, n)
\* entries (none for the empty input), and the returned entries are entries
\* of the input, each input position used at most once.
C2_BoundedOutput ==
  rankPc = "returned" =>
    /\ Len(rankOutput) = Min(5, Len(rankInput))
    /\ Len(rankPos) = Len(rankOutput)
    /\ \A k \in 1..Len(rankOutput) :
         /\ rankPos[k] \in 1..Len(rankInput)
         /\ rankOutput[k] = rankInput[rankPos[k]]
    /\ \A j, k \in 1..Len(rankPos) : j # k => rankPos[j] # rankPos[k]

\* a call on more than five fragments
C2_Witness ==
  /\ rankPc = "returned"
  /\ Len(rankInput) > 5
  /\ Len(rankOutput) = 5

\* C3: selectKeyPoints is stable, hence its output is determined by the
\* input alone: fragments of equal importance and equal text length keep
\* their input order, so the selected positions are ordered by the strict
\* total order (importance, longer text, input position) and every omitted
\* position comes after every selected one in that order.
TotalBefore(p, q) ==
  \/ RanksBefore(rankInput[p], rankInput[q])
  \/ SameKeys(rankInput[p], rankInput[q]) /\ p < q

C3_StableOrder ==
  rankPc = "returned" =>
    /\ \A j, k \in 1..Len(rankPos) :
         (j < k /\ SameKeys(rankOutput[j], rankOutput[k])) => rankPos[j] < rankPos[k]
    /\ \A k \in 1..(Len(rankPos) - 1) : TotalBefore(rankPos[k], rankPos[k+1])
    /\ \A p \in Omitted : \A k \in 1..Len(rankPos) : TotalBefore(rankPos[k], p)

\* a call whose output holds two different fragments with equal keys, taken
\* from an input in which a fragment of those keys was also left out
C3_Witness ==
  /\ rankPc = "returned"
  /\ \E j, k \in 1..Len(rankOutput) :
       /\ j < k
       /\ SameKeys(rankOutput[j], rankOutput[k])
       /\ rankOutput[j] # rankOutput[k]
  /\ \E p \in Omitted : SameKeys(rankInput[p], rankOutput[Len(rankOutput)])

(***************************************************************************)
(* Claims about the background handler                                     *)
(***************************************************************************)
Responded == pc = "responded"
Absent == log = <<"absent">>
Unavailable == log = <<"availability", "unavailable">>
ServiceThrew == Len(log) > 0 /\ log[Len(log)] = "throw"
FailureMode == Absent \/ Unavailable \/ ServiceThrew

\* the response was built from the value the service call resolved with
PrimaryPath ==
  /\ Len(log) > 0 /\ log[Len(log)] = "value"
  /\ IsSummarize => IsStr(returned)

HasPageData == IsSummarize /\ message.text # Undefined
IsRewrite == message.action = "rewrite"

WellFormed ==
  \/ /\ HasPageData
     /\ IsStr(message.text.title)
     /\ IsArr(message.text.textElements)
  \/ /\ IsRewrite
     /\ IsStr(message.text)

\* what sendResponse is called with for a completion of the handler
ResponseOf(c) ==
  IF c.kind = "return" THEN c.value ELSE [success |-> FALSE, error |-> c.message]

\* C4: a well-formed summarize request (page data with a title and a fragment
\* array) and a well-formed rewrite request (string text) is answered with
\* success = true whatever the language service does.
C4_AlwaysSucceeds ==
  (Responded /\ WellFormed) => response.success = TRUE

\* well-formed requests answered after the service threw, and after it
\* resolved summarize with a value that is not a string
C4_Witness ==
  /\ Responded
  /\ WellFormed
  /\ IsSummarize
  /\ log[Len(log)] = "value"
  /\ ~ IsStr(returned)
  /\ response.success = TRUE
  /\ Len(response.keyPoints) > 0

\* C5: with the language service absent, reporting 'unavailable' or
\* throwing, summarizeContent answers any page data object with success =
\* true and a non-empty summary, and rewriteText answers any non-empty input
\* text and any options with success = true and a non-empty rewritten text.
C5_FallbackGuarantee ==
  (Responded /\ FailureMode /\ (HasPageData \/ (IsRewrite /\ Truthy(message.text)))) =>
    /\ response.success = TRUE
    /\ IsSummarize => (IsStr(response.summary) /\ Len(response.summary.s) > 0)
    /\ IsRewrite => (IsStr(response.rewritten) /\ Len(response.rewritten.s) > 0)

\* the first heading and the first paragraph of a list, in input order
FirstOfType(els, type) == SetMin({i \in 1..Len(els) : els[i].type = type})
HasType(els, type) == \E i \in 1..Len(els) : els[i].type = type

ExpectedSummary(els, title) ==
  S_ThisPageDiscusses \o title \o S_DotSpace
    \o (IF HasType(els, "heading")
          THEN S_TheMainTopicIs \o els[FirstOfType(els, "heading")].text \o S_DotSpace
          ELSE <<>>)
    \o (IF HasType(els, "paragraph")
          THEN LET p == els[FirstOfType(els, "paragraph")].text
               IN  IF Len(p) > 100 THEN SubSeq(p, 1, 100) \o S_Ellipsis ELSE p
          ELSE <<>>)

FallbackSummary ==
  /\ Responded
  /\ HasPageData
  /\ ~ PrimaryPath
  /\ response.success = TRUE

\* C6: on the fallback path, for page data with a title, the summary is
\* "This page discusses " + title + ". ", then "The main topic is " + the
\* text of the first heading in input order + ". " iff there is a heading,
\* then the first paragraph's text, cut to 100 characters plus "..." iff it
\* is longer than 100; the key points are selectKeyPoints of the same list
\* (the empty list when the page data has none).
C6_FallbackSummaryFormat ==
  (FallbackSummary /\ IsStr(message.text.title)) =>
    LET els == localTextElements(message.text).a
    IN  /\ response.summary = Str(ExpectedSummary(els, message.text.title.s))
        /\ response.keyPoints = selectKeyPoints(els)

\* a fallback summary of a page whose first heading is not its top-ranked
\* fragment and whose first paragraph is longer than 100 characters
C6_Witness ==
  /\ FallbackSummary
  /\ IsStr(message.text.title)
  /\ IsArr(message.text.textElements)
  /\ LET els == message.text.textElements.a
     IN  /\ HasType(els, "heading")
         /\ HasType(els, "paragraph")
         /\ Len(els[FirstOfType(els, "paragraph")].text) > 100
         /\ response.keyPoints[1] # els[FirstOfType(els, "heading")]
         /\ Len(els) > Len(response.keyPoints)

\* C7: the fallback response does not depend on the failure that triggered
\* it: for every page data object (its title or textElements may be
\* missing) and every rewrite request, the response given when the service
\* reports 'unavailable' or throws equals the response given when the
\* service is absent.
C7_FallbackIndependentOfFailure ==
  (Responded /\ (Unavailable \/ ServiceThrew) /\ (HasPageData \/ IsRewrite)) =>
    response = ResponseOf(early(message))

\* C8: a summarize request without page data and a rewrite request without
\* text are answered with success = false and a reason string, whatever the
\* options and the language service.
C8_MalformedInputFails ==
  (Responded /\ message.text = Undefined) =>
    /\ response.success = FALSE
    /\ "error" \in DOMAIN response

\* C9: every successful summarize response has at most 5 key points, on the
\* fallback path and on the primary path.
C9_AtMostFiveKeyPoints ==
  (Responded /\ IsSummarize /\ response.success = TRUE) =>
    Len(response.keyPoints) <= 5

\* C10: every successful rewrite response carries the input text unchanged
\* in its original field, on the primary and on the fallback path.
C10_OriginalPreserved ==
  (Responded /\ IsRewrite /\ response.success = TRUE) =>
    response.original = message.text

\* a fallback rewrite with simplify and a tone that changed the text
C10_Witness ==
  /\ Responded
  /\ IsRewrite
  /\ ~ PrimaryPath
  /\ message.options # Undefined
  /\ message.options.simplify
  /\ Truthy(message.options.tone)
  /\ response.success = TRUE
  /\ response.rewritten # message.text


(***************************************************************************)
(* Claims about the tone adjustment of the fallback rewrite                *)
(***************************************************************************)
RECURSIVE CountFrom(_, _, _)
\* the number of places from i on where p occurs in s
CountFrom(s, p, i) ==
  IF i + Len(p) - 1 > Len(s) THEN 0
  ELSE (IF MatchAt(s, p, i) THEN 1 ELSE 0) + CountFrom(s, p, i + 1)

Count(s, p) == CountFrom(s, p, 1)

Rewrote == rwPc \in {"once", "twice"} /\ rwOut.kind = "return"
RewroteTwice == rwPc = "twice" /\ rwOut2.kind = "return"
Rewritten == rwOut.value.rewritten.s
ToneIs(t) == IsStr(rwOptions.tone) /\ rwOptions.tone.s = t

\* C11: with tone 'formal' the fallback rewrite expands every occurrence of
\* "won't", "can't" and "don't": none of the three is left in the result, each
\* occurrence grew into its phrase, and rewriting the result again changes
\* nothing.
C11_FormalExpandsEvery ==
  ToneIs(S_formal) =>
    /\ Rewrote =>
          /\ \A c \in {S_wont, S_cant, S_dont} : Count(Rewritten, c) = 0
          /\ Count(Rewritten, S_will_not)
                = Count(rwText, S_will_not) + Count(rwText, S_wont)
          /\ Count(Rewritten, S_cannot)
                = Count(rwText, S_cannot) + Count(rwText, S_cant)
          /\ Count(Rewritten, S_do_not)
                = Count(rwText, S_do_not) + Count(rwText, S_dont)
          /\ Len(Rewritten) = Len(rwText) + 3 * Count(rwText, S_wont)
                                + Count(rwText, S_cant) + Count(rwText, S_dont)
    /\ RewroteTwice => rwOut2.value.rewritten = rwOut.value.rewritten

\* a text with one contraction twice was rewritten, and rewritten again
C11_Witness ==
  /\ ToneIs(S_formal)
  /\ RewroteTwice
  /\ \E c \in {S_wont, S_cant, S_dont} : Count(rwText, c) = 2
  /\ Rewritten # rwText

FirstOnly(phrase, contraction) ==
  /\ Count(Rewritten, phrase)
       = Count(rwText, phrase) - (IF Count(rwText, phrase) > 0 THEN 1 ELSE 0)
  /\ Count(Rewritten, contraction)
       = Count(rwText, contraction) + (IF Count(rwText, phrase) > 0 THEN 1 ELSE 0)
  /\ Count(rwText, phrase) > 0 =>
       \E j \in 1..Len(Rewritten) :
         /\ MatchAt(Rewritten, contraction, j)
         /\ Count(SubSeq(Rewritten, 1, j - 1), phrase) = 0
         /\ Count(SubSeq(Rewritten, j, Len(Rewritten)), phrase)
              = Count(rwText, phrase) - 1

\* C12: with tone 'casual' the fallback rewrite contracts only the first
\* occurrence of "will not", of "cannot" and of "do not"; every later
\* occurrence of each phrase is still in the result.
C12_CasualFirstOnly ==
  (ToneIs(S_casual) /\ Rewrote) =>
    /\ FirstOnly(S_will_not, S_wont)
    /\ FirstOnly(S_cannot, S_cant)
    /\ FirstOnly(S_do_not, S_dont)
    /\ Len(Rewritten)
         = Len(rwText) - (IF Count(rwText, S_will_not) > 0 THEN 3 ELSE 0)
                       - (IF Count(rwText, S_cannot) > 0 THEN 1 ELSE 0)
                       - (IF Count(rwText, S_do_not) > 0 THEN 1 ELSE 0)

\* a text with one phrase twice was rewritten casually
C12_Witness ==
  /\ ToneIs(S_casual)
  /\ Rewrote
  /\ \E ph \in {S_will_not, S_cannot, S_do_not} :
        Count(rwText, ph) = 2 /\ Count(Rewritten, ph) = 1

ToneNames == {S_casual, S_formal, S_friendly}

\* C13 as stated: a tone other than exactly 'casual', 'formal' or 'friendly',
\* with simplify off, returns the text unchanged.
C13_ExactToneNames ==
  (/\ Rewrote
   /\ ~ rwOptions.simplify
   /\ ~ (IsStr(rwOptions.tone) /\ rwOptions.tone.s \in ToneNames))
    => rwOut.value.rewritten = Str(rwText)

\* C13: a tone that is none of 'casual', 'formal' and 'friendly' in any letter
\* case, with simplify off, returns the text unchanged (and success).
C13_UnknownTonePassesThrough ==
  (/\ Rewrote
   /\ ~ rwOptions.simplify
   /\ ~ (IsStr(rwOptions.tone) /\ toLowerCase(rwOptions.tone.s) \in ToneNames))
    => /\ rwOut.value.rewritten = Str(rwText)
       /\ rwOut.value.original = Str(rwText)
       /\ rwOut.value.success

\* the tone 'angry' was asked for on a text that has both contractions and
\* phrases to contract
C13_Witness ==
  /\ Rewrote
  /\ ~ rwOptions.simplify
  /\ ToneIs(T_angry)
  /\ Count(rwText, S_wont) > 0
  /\ Count(rwText, S_will_not) > 0


(***************************************************************************)
(* Claim about the length option of rewriteText                            *)
(***************************************************************************)
LengthIs(l) ==
  /\ IsRewrite
  /\ message.options # Undefined
  /\ message.options.length = Str(l)
  /\ IsStr(message.text)

MultiSentence(text) == Count(text.s, <<".">>) >= 2

\* C14: a successful rewrite response to options.length = 'shorter' carries a
\* text strictly shorter than a multi-sentence input, and one to
\* options.length = 'longer' a text strictly longer than the input.
C14_LengthHonoured ==
  (Responded /\ IsRewrite /\ response.success = TRUE) =>
    /\ (LengthIs(S_shorter) /\ MultiSentence(message.text)) =>
         (IsStr(response.rewritten)
            /\ Len(response.rewritten.s) < Len(message.text.s))
    /\ LengthIs(S_longer) =>
         (IsStr(response.rewritten)
            /\ Len(response.rewritten.s) > Len(message.text.s))

(***************************************************************************)
(* The page as the content script sees it: a tree of nodes.  A node is an  *)
(* element of the page, a text node, or a highlight span; a span is known  *)
(* by the index in its data-whatsit-id and by the applyHighlights call     *)
(* that created it.                                                        *)
(***************************************************************************)
PageElement(tag) == [tag |-> tag, n |-> 0, gen |-> 0]
TextNode == [tag |-> "#text", n |-> 0, gen |-> 0]

\* document.createElement('span') with className 'whatsit-highlight' and
\* dataset.whatsitId = `highlight-${index}`
createSpan(index, gen) == [tag |-> "span", n |-> index, gen |-> gen]

Tree(node, kids) == [node |-> node, kids |-> kids, data |-> <<>>]
\* document.createTextNode(data)
createTextNode(data) == [node |-> TextNode, kids |-> <<>>, data |-> data]

IsText(t) == t.node.tag = "#text"
\* the selector '.whatsit-highlight'
IsHighlight(t) == t.node.tag = "span"

\* <body><h1>A</h1><li>b<p>c</p>d</li></body>: a heading and a list item
\* with a paragraph nested in it
H1 == PageElement("h1")
LI == PageElement("li")
P == PageElement("p")
Page ==
  Tree(PageElement("body"),
       << Tree(H1, << createTextNode(<<"A">>) >>),
          Tree(LI, << createTextNode(<<"b">>),
                      Tree(P, << createTextNode(<<"c">>) >>),
                      createTextNode(<<"d">>) >>) >>)

RECURSIVE Flatten(_)
\* the concatenation of a sequence of sequences
Flatten(ss) == IF ss = <<>> THEN <<>> ELSE Head(ss) \o Flatten(Tail(ss))

RECURSIVE textContent(_)
\* Node.textContent
textContent(t) ==
  IF IsText(t) THEN t.data
  ELSE Flatten([i \in DOMAIN t.kids |-> textContent(t.kids[i])])

RECURSIVE querySelectorAll(_)
\* document.querySelectorAll('.whatsit-highlight'): the highlight spans below
\* t, in document order
querySelectorAll(t) ==
  Flatten([i \in DOMAIN t.kids |->
             (IF IsHighlight(t.kids[i]) THEN << t.kids[i].node >> ELSE <<>>)
               \o querySelectorAll(t.kids[i])])

RECURSIVE surroundContents(_, _, _)
\* range.selectNodeContents(element); range.surroundContents(span): the span
\* becomes the only child of element and takes its children.  An element that
\* is not in the document is wrapped where it is, and the document stays.
surroundContents(t, element, span) ==
  IF t.node = element THEN [t EXCEPT !.kids = << Tree(span, t.kids) >>]
  ELSE [t EXCEPT !.kids =
          [i \in DOMAIN t.kids |-> surroundContents(t.kids[i], element, span)]]

RECURSIVE unwrap(_, _)
\* the body of the forEach in removeHighlights (content script, lines
\* 375-380): the children of the highlight move in front of it, and the
\* highlight leaves its parent
unwrap(t, highlight) ==
  [t EXCEPT !.kids =
     Flatten([i \in DOMAIN t.kids |->
                IF t.kids[i].node = highlight
                  THEN t.kids[i].kids
                  ELSE << unwrap(t.kids[i], highlight) >>])]

RECURSIVE unwrapEach(_, _)
\* NodeList.forEach over the static list querySelectorAll returned
unwrapEach(t, list) ==
  IF list = <<>> THEN t
  ELSE unwrapEach(unwrap(t, Head(list)), Tail(list))

RECURSIVE mergeText(_)
\* adjacent text nodes become one, empty text nodes go
mergeText(kids) ==
  IF kids = <<>> THEN <<>>
  ELSE LET k == Head(kids)
           rest == mergeText(Tail(kids))
       IN  IF ~ IsText(k) THEN << k >> \o rest
           ELSE IF k.data = <<>> THEN rest
           ELSE IF rest # <<>> /\ IsText(Head(rest))
             THEN << createTextNode(k.data \o Head(rest).data) >> \o Tail(rest)
           ELSE << k >> \o rest

RECURSIVE normalize(_)
\* Node.normalize(): on the node and on everything below it
normalize(t) ==
  IF IsText(t) THEN t
  ELSE [t EXCEPT !.kids =
          mergeText([i \in DOMAIN t.kids |-> normalize(t.kids[i])])]

RECURSIVE replaceByText(_, _)
\* the body of the forEach in removeHighlights (dom-utils.js, lines 227-233):
\* a text node with the highlight's textContent takes the highlight's place
\* and the parent is normalized
replaceByText(t, highlight) ==
  IF \E i \in DOMAIN t.kids : t.kids[i].node = highlight
    THEN normalize([t EXCEPT !.kids =
                      [i \in DOMAIN t.kids |->
                         IF t.kids[i].node = highlight
                           THEN createTextNode(textContent(t.kids[i]))
                           ELSE t.kids[i]]])
    ELSE [t EXCEPT !.kids =
            [i \in DOMAIN t.kids |-> replaceByText(t.kids[i], highlight)]]

RECURSIVE replaceEach(_, _)
\* highlights.forEach over the static list; a highlight that left the
\* document with an earlier one is replaced inside the detached subtree
replaceEach(t, list) ==
  IF list = <<>> THEN t
  ELSE replaceEach(replaceByText(t, Head(list)), Tail(list))

(***************************************************************************)
(* applyHighlights and removeHighlights (content script, lines 315-384) on *)
(* the pair of the document and the registry whatsitState.highlights       *)
(***************************************************************************)
\* a value that is an object but no DOM node, as an element comes out of a
\* message
PlainObject == [t |-> "object"]
IsNode(v) == "tag" \in DOMAIN v

\* faulty variant: the registry is not reset
removeHighlightsKeepRegistry(s) ==
  [doc |-> unwrapEach(s.doc, querySelectorAll(s.doc)),
   highlights |-> s.highlights]

removeHighlights(s) ==
  [doc |-> unwrapEach(s.doc, querySelectorAll(s.doc)),
   highlights |-> <<>>]

\* removeHighlights() of dom-utils.js (lines 219-234), which knows no registry
utilRemoveHighlights(s) ==
  [doc |-> replaceEach(s.doc, querySelectorAll(s.doc)),
   highlights |-> s.highlights]

RECURSIVE applyEach(_, _, _, _)
\* keyPoints.forEach from position i on (indices count from 0); a truthy
\* element that is not a node makes selectNodeContents throw
applyEach(s, keyPoints, i, gen) ==
  IF i > Len(keyPoints) THEN s
  ELSE LET keyPoint == keyPoints[i]
           span == createSpan(i - 1, gen)
       IN  IF keyPoint.element = Undefined
             THEN applyEach(s, keyPoints, i + 1, gen)
           ELSE IF ~ IsNode(keyPoint.element)
             THEN [s EXCEPT !.threw = TRUE]
           ELSE applyEach(
                  [doc |-> surroundContents(s.doc, keyPoint.element, span),
                   highlights |->
                     Append(s.highlights,
                            [element |-> span, id |-> i - 1,
                             text |-> keyPoint.text]),
                   threw |-> FALSE],
                  keyPoints, i + 1, gen)

\* faulty variant: the highlights of the page are not removed first
applyHighlightsNoRemove(s, keyPoints, gen) ==
  applyEach([doc |-> s.doc, highlights |-> <<>>, threw |-> FALSE],
            keyPoints, 1, gen)

applyHighlights(s, keyPoints, gen) ==
  applyEach([doc |-> removeHighlights(s).doc, highlights |-> <<>>,
             threw |-> FALSE],
            keyPoints, 1, gen)

(***************************************************************************)
(* Key points: an entry of extractPageText's list with its element, a key  *)
(* point of the primary path (no element), and one whose element came out  *)
(* of a message as a plain object                                          *)
(***************************************************************************)
MaxKeyPoints == 2
MaxApply == 2

RECURSIVE Find(_, _)
\* the subtree of t at node (the document holds every page element once)
Find(t, node) ==
  IF t.node = node THEN << t >>
  ELSE Flatten([i \in DOMAIN t.kids |-> Find(t.kids[i], node)])

\* { text: el.textContent.trim(), element: el, ... }
Extracted(el) == [text |-> textContent(Find(Page, el)[1]), element |-> el]

KeyPoints ==
  { Extracted(H1), Extracted(LI), Extracted(P),
    [text |-> <<"k">>, element |-> Undefined],
    [text |-> <<"A">>, element |-> PlainObject] }

RECURSIVE ListsOf(_, _)
\* the sequences over S of length up to n
ListsOf(S, n) ==
  IF n = 0 THEN { <<>> }
  ELSE LET shorter == ListsOf(S, n - 1)
       IN  shorter \cup { Append(l, x) : l \in shorter, x \in S }

KeyPointLists == ListsOf(KeyPoints, MaxKeyPoints)

(***************************************************************************)
(* applyHighlights and removeHighlights called directly, any number of     *)
(* times in any order                                                      *)
(***************************************************************************)
PageState == [doc |-> doc, highlights |-> whatsitState.highlights]

\* what a call of applyHighlights left: the annotations of the document and
\* the registry, whichever call created the spans
EraseGen(node) == IF node.tag = "span" THEN [node EXCEPT !.gen = 0] ELSE node

RECURSIVE Outline(_)
Outline(t) ==
  [node |-> EraseGen(t.node), data |-> t.data,
   kids |-> [i \in DOMAIN t.kids |-> Outline(t.kids[i])]]

Shape(s) ==
  [count |-> Len(querySelectorAll(s.doc)),
   registry |-> [i \in DOMAIN s.highlights |->
                   [s.highlights[i] EXCEPT !.element = EraseGen(@)]],
   outline |-> Outline(s.doc)]

HighlightInit ==
  /\ doc = Page
  /\ whatsitState = InitialState
  /\ sidebar = NoSidebar
  /\ panel = NoPanel
  /\ inflight = {}
  /\ started = 0
  /\ applied = 0
  /\ active = {}
  /\ delivered = NoneDelivered
  /\ hist = NoHistory
  /\ ListenerIdle
  /\ ExtractIdle
  /\ HandlerIdle
  /\ RankIdle
  /\ ToneIdle

\* applyHighlights(keyPoints)
CallApplyHighlights(keyPoints) ==
  /\ applied < MaxApply
  /\ LET r == applyHighlights(PageState, keyPoints, applied + 1)
         again == hist.op = "apply" /\ hist.keyPoints = keyPoints
     IN  /\ doc' = r.doc
         /\ whatsitState' = [whatsitState EXCEPT !.highlights = r.highlights]
         /\ hist' = [op |-> "apply", keyPoints |-> keyPoints,
                     repeat |-> again,
                     once |-> IF again THEN hist.once ELSE Shape(r),
                     before |-> IF querySelectorAll(doc) = <<>>
                                  THEN doc ELSE hist.before,
                     prior |-> doc,
                     util |-> hist.util,
                     threw |-> r.threw]
  /\ applied' = applied + 1
  /\ UNCHANGED <<sidebar, panel, inflight, started, active, delivered,
                 notContent, timing>>

\* removeHighlights() of the content script
CallRemoveHighlights ==
  /\ LET r == removeHighlights(PageState)
     IN  /\ doc' = r.doc
         /\ whatsitState' = [whatsitState EXCEPT !.highlights = r.highlights]
  /\ hist' = [hist EXCEPT !.op = "remove", !.repeat = FALSE, !.prior = doc,
                          !.threw = FALSE]
  /\ UNCHANGED <<sidebar, panel, inflight, started, applied, active,
                 delivered, notContent, timing>>

\* removeHighlights() of dom-utils.js
CallUtilRemoveHighlights ==
  /\ LET r == utilRemoveHighlights(PageState)
     IN  /\ doc' = r.doc
         /\ whatsitState' = [whatsitState EXCEPT !.highlights = r.highlights]
  /\ hist' = [hist EXCEPT !.op = "utilRemove", !.repeat = FALSE,
                          !.prior = doc, !.util = TRUE, !.threw = FALSE]
  /\ UNCHANGED <<sidebar, panel, inflight, started, applied, active,
                 delivered, notContent, timing>>

HighlightNext ==
  \/ \E keyPoints \in KeyPointLists : CallApplyHighlights(keyPoints)
  \/ CallRemoveHighlights
  \/ CallUtilRemoveHighlights

HighlightSpec == HighlightInit /\ [][HighlightNext]_vars

(***************************************************************************)
(* The content script at work (lines 195-576): toggle messages, analysis   *)
(* passes and their responses, the sidebar, and clicks                     *)
(***************************************************************************)
MaxPasses == 3

Bool(b) == [t |-> "boolean", b |-> b]

\* the part of the state the functions of the content script read and write
Content ==
  [doc |-> doc, whatsitState |-> whatsitState, sidebar |-> sidebar,
   panel |-> panel, active |-> active]

\* <li id="whatsit-summary-item-i"> of the render of one pass
Entry(i, pass) == [tag |-> "li", n |-> i, gen |-> pass]

\* the elements of the panel and the highlights of the page that are in the
\* document
InDocument(c, x) ==
  \/ \E i \in DOMAIN querySelectorAll(c.doc) : querySelectorAll(c.doc)[i] = x
  \/ /\ c.panel.kind = "result"
     /\ \E i \in DOMAIN c.panel.entries : x = Entry(i - 1, c.panel.summary)

\* an element that left the document keeps its class and its timer, which
\* nothing can observe any more
Detach(c) == [c EXCEPT !.active = { x \in c.active : InDocument(c, x) }]

\* toggleSidebar(show) (lines 553-576)
toggleSidebar(c, show) ==
  IF c.sidebar.containers = 0 THEN c
  ELSE LET newState == IF show # Undefined THEN show.b
                       ELSE c.sidebar.collapsed
       IN  [c EXCEPT !.sidebar.collapsed = ~ newState,
                     !.whatsitState.sidebarVisible = newState]

\* injectSidebar() with loadSidebarContent (lines 389-476): getElementById
\* keeps finding the first container and the first #whatsit-content
injectSidebar(c) ==
  [c EXCEPT !.sidebar = [containers |-> @.containers + 1,
                         collapsed |-> IF @.containers = 0 THEN TRUE
                                       ELSE @.collapsed],
            !.whatsitState.sidebarInjected = TRUE,
            !.panel = IF @.kind = "none"
                        THEN [kind |-> "empty", summary |-> 0, entries |-> <<>>]
                        ELSE @]

\* faulty variant: the entries of the render are added to those in the panel
updateSidebarAppend(c, summary, keyPoints) ==
  IF c.panel.kind = "none" THEN c
  ELSE toggleSidebar(
         [c EXCEPT !.panel =
            [kind |-> "result", summary |-> summary,
             entries |-> c.panel.entries
                           \o [i \in DOMAIN keyPoints |-> keyPoints[i].text]]],
         Bool(TRUE))

\* updateSidebar(summary, keyPoints) (lines 483-547)
updateSidebar(c, summary, keyPoints) ==
  IF c.panel.kind = "none" THEN c
  ELSE toggleSidebar(
         [c EXCEPT !.panel =
            [kind |-> "result", summary |-> summary,
             entries |-> [i \in DOMAIN keyPoints |-> keyPoints[i].text]]],
         Bool(TRUE))

\* the content script's removeHighlights() on the whole state
removeAll(c) ==
  LET r == removeHighlights([doc |-> c.doc,
                             highlights |-> c.whatsitState.highlights])
  IN  [c EXCEPT !.doc = r.doc, !.whatsitState.highlights = r.highlights]

\* analyzeContent() from the response on (lines 243-257); the summary of a
\* pass is known by the number of the pass
handleResponse(c, id, resp) ==
  IF ~ resp.success THEN c
  ELSE LET r == applyHighlights([doc |-> c.doc,
                                 highlights |-> c.whatsitState.highlights],
                                resp.keyPoints, id)
           highlighted == [c EXCEPT !.doc = r.doc,
                                    !.whatsitState.highlights = r.highlights]
       IN  IF r.threw THEN highlighted
           ELSE updateSidebar(highlighted, id, resp.keyPoints)

\* faulty variant: the sidebar is injected after every analysis
afterAnalysisInjects(c) == injectSidebar(c)

\* toggleWhatsIt() after await analyzeContent() (lines 217-221)
afterAnalysis(c) ==
  IF ~ c.whatsitState.sidebarInjected THEN injectSidebar(c)
  ELSE toggleSidebar(c, Bool(TRUE))

\* toggleWhatsIt(), the branch that deactivates (lines 224-225)
deactivate(c) == toggleSidebar(removeAll(c), Bool(FALSE))

Becomes(c) ==
  /\ doc' = c.doc
  /\ whatsitState' = c.whatsitState
  /\ sidebar' = c.sidebar
  /\ panel' = c.panel
  /\ active' = c.active
  /\ timing' = [timing EXCEPT
                  !.timers = { t \in @ : InDocument(c, t.target) },
                  !.recent = { r \in @ : InDocument(c, r.target) }]

\* what the background script can answer: no success, or a summary with key
\* points whose elements are page elements, missing, or plain objects
ResponseLists ==
  { <<>>,
    << Extracted(H1) >>,
    << [text |-> <<"k">>, element |-> Undefined] >>,
    << Extracted(LI), Extracted(P) >>,
    << [text |-> <<"k">>, element |-> Undefined], Extracted(H1) >>,
    << Extracted(H1), [text |-> <<"A">>, element |-> PlainObject] >> }

Responses ==
  { [success |-> FALSE, keyPoints |-> <<>>] }
    \cup [success : {TRUE}, keyPoints : ResponseLists]

ContentInit ==
  /\ doc = Page
  /\ whatsitState = InitialState
  /\ sidebar = NoSidebar
  /\ panel = NoPanel
  /\ inflight = {}
  /\ started = 0
  /\ applied = 0
  /\ active = {}
  /\ delivered = NoneDelivered
  /\ hist = NoHistory
  /\ ListenerIdle
  /\ ExtractIdle
  /\ HandlerIdle
  /\ RankIdle
  /\ ToneIdle

\* analyzeContent() up to the await: the request of a new pass is on its way
StartPass(origin) ==
  /\ started < MaxPasses
  /\ started' = started + 1
  /\ inflight' = inflight \cup { [id |-> started + 1, origin |-> origin] }
  /\ delivered' = [delivered EXCEPT !.overlapped = @ \/ inflight # {},
                                    !.untouched = FALSE]

toggleAnswerBefore(before, after) == [success |-> TRUE, active |-> before.isActive]

\* sendResponse({ success: true, active: whatsitState.isActive }) (line 200),
\* called when toggleWhatsIt() has returned its promise: before is the state
\* the message found, after the state toggleWhatsIt left
toggleAnswer(before, after) == [success |-> TRUE, active |-> after.isActive]

\* sendResponse({ active: whatsitState.isActive }) (line 202)
getStateAnswer(state) == [active |-> state.isActive]

\* a message with action 'toggle' (lines 198-200, 211-227)
ToggleMessage ==
  /\ IF ~ whatsitState.isActive
       THEN /\ StartPass("toggle")
            /\ Becomes([Content EXCEPT !.whatsitState.isActive = TRUE])
       ELSE /\ Becomes(Detach(deactivate(
                        [Content EXCEPT !.whatsitState.isActive = FALSE])))
            /\ delivered' = [delivered EXCEPT !.untouched = FALSE]
            /\ UNCHANGED <<inflight, started>>
  /\ answer' = toggleAnswer(whatsitState, whatsitState')
  /\ toggles' = (toggles + 1) % 2
  /\ UNCHANGED <<applied, hist, popup, notPage>>

\* a click on the Refresh Analysis button of the open sidebar (lines 463-470)
RefreshClick ==
  /\ sidebar.containers > 0
  /\ ~ sidebar.collapsed
  /\ StartPass("refresh")
  /\ Becomes(Detach([Content EXCEPT !.panel =
                       [kind |-> "loading", summary |-> 0, entries |-> <<>>]]))
  /\ UNCHANGED <<applied, hist, notContent>>

\* the response of a pass arrives: the rest of analyzeContent runs, and
\* after it the rest of toggleWhatsIt if a toggle started the pass
DeliverResponse(pass, resp) ==
  /\ pass \in inflight
  /\ inflight' = inflight \ {pass}
  /\ delivered' = [delivered EXCEPT !.count = @ + 1,
                                    !.last = [id |-> pass.id, resp |-> resp],
                                    !.untouched = TRUE]
  /\ LET handled == handleResponse(Content, pass.id, resp)
     IN  Becomes(Detach(IF pass.origin = "toggle" THEN afterAnalysis(handled)
                        ELSE handled))
  /\ UNCHANGED <<started, applied, hist, notContent>>

\* a click on the toggle button of the sidebar (lines 405-407)
ToggleButtonClick ==
  /\ sidebar.containers > 0
  /\ Becomes(toggleSidebar(Content, Undefined))
  /\ UNCHANGED <<inflight, started, applied, delivered, hist, notContent>>

\* document.querySelector(`[data-whatsit-id="highlight-${index}"]`)
querySelector(t, index) ==
  LET found == SelectSeq(querySelectorAll(t), LAMBDA s : s.n = index)
  IN  IF found = <<>> THEN Undefined ELSE Head(found)

\* a click on entry index of the open panel (lines 519-525)
ClickEntry(index) ==
  /\ panel.kind = "result"
  /\ ~ sidebar.collapsed
  /\ index + 1 \in DOMAIN panel.entries
  /\ LET highlightElement == querySelector(doc, index)
     IN  active' = IF highlightElement # Undefined
                     THEN active \cup {highlightElement} ELSE active
  /\ UNCHANGED <<doc, whatsitState, sidebar, panel, inflight, started, applied,
                 delivered, hist, notContent, timing>>

\* a click on a highlight of the page (lines 336-345)
ClickHighlight(highlightElement) ==
  /\ \E i \in DOMAIN querySelectorAll(doc) :
       querySelectorAll(doc)[i] = highlightElement
  /\ LET summaryItem == Entry(highlightElement.n, panel.summary)
     IN  active' = active \cup {highlightElement}
                     \cup (IF InDocument(Content, summaryItem)
                             THEN {summaryItem} ELSE {})
  /\ UNCHANGED <<doc, whatsitState, sidebar, panel, inflight, started, applied,
                 delivered, hist, notContent, timing>>

\* the timer of an emphasis fires (lines 343, 365-367)
TimerFires(x) ==
  /\ x \in active
  /\ active' = active \ {x}
  /\ UNCHANGED <<doc, whatsitState, sidebar, panel, inflight, started, applied,
                 delivered, hist, notContent, timing>>

Passes == [id : 1..MaxPasses, origin : {"toggle", "refresh"}]
Indices == 0..(MaxKeyPoints - 1)
Spans == { createSpan(i, g) : i \in Indices, g \in 1..MaxPasses }
Entries == { Entry(i, g) : i \in Indices, g \in 1..MaxPasses }

ContentNext ==
  \/ ToggleMessage
  \/ RefreshClick
  \/ \E pass \in Passes, resp \in Responses : DeliverResponse(pass, resp)
  \/ ToggleButtonClick
  \/ \E index \in Indices : ClickEntry(index)
  \/ \E highlightElement \in Spans : ClickHighlight(highlightElement)
  \/ \E x \in Spans \cup Entries : TimerFires(x)

ContentSpec == ContentInit /\ [][ContentNext]_vars

(***************************************************************************)
(* Claims about applyHighlights and removeHighlights                       *)
(***************************************************************************)
Annotations == querySelectorAll(doc)
Registry == whatsitState.highlights

\* C15: applyHighlights called twice in a row with the same key points leaves
\* the same number of highlight annotations, the same registry entries (id,
\* text and data id of the span) and the same nesting of spans and page nodes
\* as the first of the two calls left.
C15_ApplyTwiceAsOnce ==
  (hist.op = "apply" /\ hist.repeat) => Shape(PageState) = hist.once

\* the list item and the paragraph nested in it were highlighted twice in a row
C15_Witness ==
  /\ hist.op = "apply"
  /\ hist.repeat
  /\ hist.keyPoints = << Extracted(LI), Extracted(P) >>
  /\ Len(Annotations) = 2
  /\ applied >= 2

\* C16: once removeHighlights (of the content script or of dom-utils.js) has
\* run after applyHighlights, the document is the one applyHighlights found:
\* the same nodes in the same order with the same text.
C16_RoundTrip ==
  (hist.op \in {"remove", "utilRemove"} /\ hist.before # Undefined) =>
    doc = hist.before

HighlightOf(index) == querySelector(doc, index)

\* C18: for every entry index of the rendered panel, a click on panel entry
\* index marks the highlight with that index active, and a click on a
\* highlight marks the panel entry with its index active.
C18_CrossNavigation ==
  [][/\ \A index \in Indices :
          ClickEntry(index) =>
            (HighlightOf(index) # Undefined /\ HighlightOf(index) \in active')
     /\ \A highlightElement \in Spans :
          ClickHighlight(highlightElement) =>
            (/\ panel.kind = "result"
             /\ highlightElement.n + 1 \in DOMAIN panel.entries
             /\ Entry(highlightElement.n, panel.summary) \in active')]_vars

\* C19: while the feature is off the page holds no highlight annotation.
C19_NoHighlightsWhileOff ==
  ~ whatsitState.isActive => querySelectorAll(doc) = <<>>

RECURSIVE Anchored(_, _)
\* the indices (from 0) of the key points from position i on whose element is
\* a page element
Anchored(keyPoints, i) ==
  IF i > Len(keyPoints) THEN <<>>
  ELSE (IF IsNode(keyPoints[i].element) THEN << i - 1 >> ELSE <<>>)
         \o Anchored(keyPoints, i + 1)

\* every pass has its response, two passes were in flight together, and
\* nothing was toggled or refreshed since the last response
AllDelivered ==
  /\ inflight = {}
  /\ delivered.count >= 2
  /\ delivered.overlapped
  /\ delivered.untouched

C21_PreviousResultStays ==
  [][RefreshClick =>
       /\ panel'.kind = "loading"
       /\ panel.kind = "result" =>
            /\ panel'.summary = panel.summary
            /\ panel'.entries = panel.entries]_vars

(***************************************************************************)
(* The extractors: extractPageText of the content script (lines 264-298)   *)
(* and extractPageContent of dom-utils.js (lines 9-78)                     *)
(***************************************************************************)
MaxNodes == 2

Headings == {"h1", "h2", "h3", "h4", "h5", "h6"}

\* text.length > 20 and text.length > 15 of extractPageContent
MinParagraph == 20
MinListItem == 15

\* an element of the page that n tells from the others of its tag
Element(tag, n) == [tag |-> tag, n |-> n, gen |-> 0]

\* what a document is made of: a heading, a heading of white space, a
\* paragraph of 20 characters between white space and one of 21, a list item
\* of 15 characters between white space and one of 16, a list item of 16 in
\* a nav, and an article that holds a paragraph
Shapes(n) ==
  { Tree(Element("h1", n), << createTextNode(<<"A">>) >>),
    Tree(Element("h2", n), << createTextNode(<<" ", "\n">>) >>),
    Tree(Element("p", n),
         << createTextNode(<<" ">> \o Rep("p", MinParagraph) \o <<"\n">>) >>),
    Tree(Element("p", n), << createTextNode(Rep("q", MinParagraph + 1)) >>),
    Tree(Element("li", n),
         << createTextNode(<<" ">> \o Rep("i", MinListItem) \o <<" ">>) >>),
    Tree(Element("li", n), << createTextNode(Rep("j", MinListItem + 1)) >>),
    Tree(Element("nav", n),
         << Tree(Element("li", n),
                 << createTextNode(Rep("k", MinListItem + 1)) >>) >>),
    Tree(Element("article", n),
         << Tree(Element("p", n),
                 << createTextNode(Rep("r", MinParagraph + 1)) >>) >>) }

\* <body> with up to MaxNodes of these elements in it
Documents ==
  { Tree(PageElement("body"), kids) :
      kids \in UNION { { k \in [1..len -> UNION { Shapes(n) : n \in 1..len }] :
                           \A n \in 1..len : k[n] \in Shapes(n) } :
                       len \in 0..MaxNodes } }

RECURSIVE descendants(_, _)
\* the elements below t in document order, each with the tags of the
\* elements it lies in; above holds the tags of t and of what t lies in
descendants(t, above) ==
  Flatten([i \in DOMAIN t.kids |->
             IF IsText(t.kids[i]) THEN <<>>
             ELSE << [tree |-> t.kids[i], inside |-> above] >>
                    \o descendants(t.kids[i],
                                   above \cup {t.kids[i].node.tag})])

\* root.querySelectorAll of a selector that lists tags
querySelectorAllOf(root, tags) ==
  SelectSeq(descendants(root, {root.node.tag}),
            LAMBDA e : e.tree.node.tag \in tags)

\* parseInt(tag.replace('h', '')) of getHeadingImportance (lines 305-309) and
\* parseInt(heading.tagName.substring(1)) of extractPageContent
getHeadingImportance(tag) ==
  CHOOSE level \in 1..6 : tag = <<"h1", "h2", "h3", "h4", "h5", "h6">>[level]

\* extractPageText() of the content script (lines 264-298); the documents
\* hold no images
extractPageText(document) ==
  LET article == querySelectorAllOf(document, {"article"})
      main == querySelectorAllOf(document, {"main"})
      mainContent == IF article # <<>> THEN article[1].tree
                     ELSE IF main # <<>> THEN main[1].tree
                     ELSE document
      found(tags) == querySelectorAllOf(mainContent, tags)
      headings ==
        [i \in DOMAIN found(Headings) |->
           [text |-> trim(textContent(found(Headings)[i].tree)),
            element |-> found(Headings)[i].tree.node,
            type |-> "heading",
            importance |->
              getHeadingImportance(found(Headings)[i].tree.node.tag)]]
      paragraphs ==
        [i \in DOMAIN found({"p"}) |->
           [text |-> trim(textContent(found({"p"})[i].tree)),
            element |-> found({"p"})[i].tree.node,
            type |-> "paragraph", importance |-> 3]]
      listItems ==
        [i \in DOMAIN found({"li"}) |->
           [text |-> trim(textContent(found({"li"})[i].tree)),
            element |-> found({"li"})[i].tree.node,
            type |-> "list-item", importance |-> 4]]
      allTextElements ==
        SelectSeq(headings \o paragraphs \o listItems,
                  LAMBDA item : Len(item.text) > 0)
  IN  [textElements |-> allTextElements, images |-> <<>>]

\* faulty variant: one fragment more gets the reduction
boostTopSix(textElements) ==
  [i \in DOMAIN textElements |->
     IF i - 1 < 6 THEN [textElements[i] EXCEPT !.importance = @ - 2]
     ELSE textElements[i]]

\* textElements.forEach((element, index) => { if (index < 5)
\* element.importance -= 2 }) (lines 66-71)
boostTop(textElements) ==
  [i \in DOMAIN textElements |->
     IF i - 1 < 5 THEN [textElements[i] EXCEPT !.importance = @ - 2]
     ELSE textElements[i]]

\* extractPageContent() of dom-utils.js (lines 9-78)
extractPageContent(document) ==
  LET found(tags) == querySelectorAllOf(document, tags)
      text(e) == trim(textContent(e.tree))
      headings ==
        SelectSeq(found(Headings), LAMBDA e : Len(text(e)) > 0)
      paragraphs ==
        SelectSeq(found({"p"}),
                  LAMBDA e : Len(text(e)) > 0 /\ Len(text(e)) > MinParagraph)
      listItems ==
        SelectSeq(found({"li"}),
                  LAMBDA e : /\ Len(text(e)) > 0
                             /\ Len(text(e)) > MinListItem
                             /\ "nav" \notin e.inside)
      pushed ==
        [i \in DOMAIN headings |->
           [type |-> "heading",
            level |-> getHeadingImportance(headings[i].tree.node.tag),
            text |-> text(headings[i]),
            importance |-> getHeadingImportance(headings[i].tree.node.tag),
            element |-> headings[i].tree.node]]
        \o [i \in DOMAIN paragraphs |->
              [type |-> "paragraph", text |-> text(paragraphs[i]),
               importance |-> 10, element |-> paragraphs[i].tree.node]]
        \o [i \in DOMAIN listItems |->
              [type |-> "list_item", text |-> text(listItems[i]),
               importance |-> 15, element |-> listItems[i].tree.node]]
  IN  [textElements |-> boostTop(pushed)]

\* documents of seven elements: more fragments than get the reduction
Heading(tag, n) == Tree(Element(tag, n), << createTextNode(<<"A">>) >>)
Paragraph(n) ==
  Tree(Element("p", n), << createTextNode(Rep("q", MinParagraph + 1)) >>)
ListItem(n) ==
  Tree(Element("li", n), << createTextNode(Rep("j", MinListItem + 1)) >>)

LongDocuments ==
  { Tree(PageElement("body"),
         << ListItem(1), Paragraph(2), Heading("h6", 3), Paragraph(4),
            Heading("h1", 5), Paragraph(6), ListItem(7) >>),
    Tree(PageElement("body"),
         << Paragraph(1), Heading("h6", 2), Heading("h6", 3),
            Heading("h5", 4), Heading("h6", 5), Heading("h6", 6),
            Heading("h6", 7) >>),
    Tree(PageElement("body"),
         << ListItem(1), ListItem(2), ListItem(3), ListItem(4), ListItem(5),
            Paragraph(6), Heading("h3", 7) >>) }

ExtractInit ==
  /\ doc \in Documents \cup LongDocuments
  /\ ExtractIdle
  /\ whatsitState = InitialState
  /\ sidebar = NoSidebar
  /\ panel = NoPanel
  /\ inflight = {}
  /\ started = 0
  /\ applied = 0
  /\ active = {}
  /\ delivered = NoneDelivered
  /\ hist = NoHistory
  /\ ListenerIdle
  /\ HandlerIdle
  /\ RankIdle
  /\ ToneIdle

notExtract == <<handlerVars, rankVars, toneVars, contentVars, listenerVars,
               scriptVars, timerVars>>

\* a call of extractPageText()
CallExtractPageText ==
  /\ extracted' = [by |-> "extractPageText", result |-> extractPageText(doc)]
  /\ UNCHANGED notExtract

\* a call of extractPageContent()
CallExtractPageContent ==
  /\ extracted' = [by |-> "extractPageContent",
                   result |-> extractPageContent(doc)]
  /\ UNCHANGED notExtract

\* selectKeyPoints called on the fragments extractPageContent returned
CallSelectKeyPointsOnContent ==
  /\ extracted # Undefined
  /\ extracted.by = "extractPageContent"
  /\ extracted' = [by |-> "selectKeyPoints",
                   result |-> extracted.result,
                   keyPoints |-> selectKeyPoints(extracted.result.textElements)]
  /\ UNCHANGED notExtract

ExtractNext ==
  \/ CallExtractPageText
  \/ CallExtractPageContent
  \/ CallSelectKeyPointsOnContent

ExtractSpec == ExtractInit /\ [][ExtractNext]_vars

\* the place of an element in the document, in document order
Position(element) ==
  CHOOSE i \in DOMAIN descendants(doc, {}) :
    descendants(doc, {})[i].tree.node = element

Produced == extracted.result.textElements

\* C22: the fragments an extractor produced are in document order
C22_DocumentOrder ==
  extracted # Undefined =>
    \A i, j \in DOMAIN Produced :
      i < j => Position(Produced[i].element) < Position(Produced[j].element)

\* the tags of the elements the element lies in
Inside(element) == descendants(doc, {})[Position(element)].inside

\* C23: every produced fragment has text, no produced paragraph or list item
\* is as short as the threshold or shorter, no produced list item lies in a
\* nav, and the empty document yields no fragment
C23_ExclusionRules ==
  extracted # Undefined =>
    /\ \A i \in DOMAIN Produced :
         /\ Len(trim(Produced[i].text)) > 0
         /\ Produced[i].type = "paragraph" =>
              Len(Produced[i].text) > MinParagraph
         /\ Produced[i].type \in {"list_item", "list-item"} =>
              /\ Len(Produced[i].text) > MinListItem
              /\ "nav" \notin Inside(Produced[i].element)
    /\ doc.kids = <<>> => Produced = <<>>

(***************************************************************************)
(* The listener of the content script (lines 195-206) and the popup        *)
(* (popup.js lines 25-48)                                                  *)
(***************************************************************************)
\* a message with action 'getState' (lines 201-202)
GetStateMessage ==
  /\ answer' = getStateAnswer(whatsitState)
  /\ UNCHANGED <<contentVars, toggles, popup, notPage, timing>>

\* the actions of the messages of analyzePage() and toggleSidebar() of the
\* popup (popup.js lines 28 and 42)
PopupCommands == {"analyzePage", "toggleSidebar"}

\* the branch of the listener a message takes (lines 198-203)
listenerBranch(action) ==
  IF action = "toggle" THEN "toggle"
  ELSE IF action = "getState" THEN "getState"
  ELSE "none"

\* a click on Analyze Page or Toggle Sidebar: chrome.tabs.sendMessage with
\* the callback that closes the popup
ClickPopup(command) ==
  /\ popup.state = "open"
  /\ popup' = [state |-> "sent", command |-> command, answered |-> FALSE]
  /\ UNCHANGED <<contentVars, answer, toggles, notPage, timing>>

\* the listener of the content script runs on the message of the popup: no
\* branch takes it, nothing is done, sendResponse is not called, and the
\* listener returns true (lines 198-204)
OnPopupMessage ==
  /\ popup.state = "sent"
  /\ listenerBranch(popup.command) = "none"
  /\ popup' = [popup EXCEPT !.state = "waiting"]
  /\ UNCHANGED <<contentVars, answer, toggles, notPage, timing>>

\* the channel of a message nobody answered is closed at a time of the
\* browser's choosing (when sendResponse is collected); the callback of
\* chrome.tabs.sendMessage then runs without a response: window.close()
ChannelCloses ==
  /\ popup.state = "waiting"
  /\ popup' = [popup EXCEPT !.state = "closed"]
  /\ UNCHANGED <<contentVars, answer, toggles, notPage, timing>>

ListenerNext ==
  \/ ToggleMessage
  \/ GetStateMessage
  \/ \E pass \in Passes, resp \in Responses : DeliverResponse(pass, resp)
  \/ \E command \in PopupCommands : ClickPopup(command)
  \/ OnPopupMessage
  \/ ChannelCloses

ListenerSpec == ContentInit /\ [][ListenerNext]_vars

\* C24: a toggle message flips isActive and is answered with success and the
\* new value, which is true after an odd number of toggle messages and false
\* after an even number, while the pass it started is still waiting for its
\* response; a getState message is answered with the value of isActive and
\* changes nothing
C24_ToggleAnswers ==
  /\ [][ToggleMessage =>
          /\ whatsitState'.isActive = ~ whatsitState.isActive
          /\ answer' = [success |-> TRUE, active |-> whatsitState'.isActive]
          /\ answer'.active = (toggles' = 1)
          /\ whatsitState'.isActive =>
               [id |-> started', origin |-> "toggle"] \in inflight']_vars
  /\ [][GetStateMessage =>
          /\ answer' = [active |-> whatsitState.isActive]
          /\ UNCHANGED <<contentVars, toggles>>]_vars

\* the second toggle message was answered with active false while the pass
\* of the first is waiting for its response
C24_Witness ==
  /\ toggles = 0
  /\ answer = [success |-> TRUE, active |-> FALSE]
  /\ inflight # {}

\* C25: the listener of the content script handles the message of a popup
\* command and answers it: Analyze Page starts an analysis pass, Toggle
\* Sidebar shows the sidebar or hides it
C25_PopupCommandsHandled ==
  [][OnPopupMessage =>
       /\ popup'.answered
       /\ popup.command = "analyzePage" => started' = started + 1
       /\ (popup.command = "toggleSidebar" /\ sidebar.containers > 0) =>
            sidebar'.collapsed # sidebar.collapsed]_vars

\* C26: when the response of a pass that a toggle message started is
\* delivered with success and its highlights are applied, the sidebar is
\* there, is not collapsed, and the panel shows the summary of that pass with
\* one entry for each key point
C26_ActivationShowsResult ==
  [][\A pass \in Passes, resp \in Responses :
       ( /\ DeliverResponse(pass, resp)
         /\ pass.origin = "toggle"
         /\ resp.success
         /\ ~ applyHighlights(PageState, resp.keyPoints, pass.id).threw ) =>
           /\ sidebar'.containers > 0
           /\ ~ sidebar'.collapsed
           /\ whatsitState'.sidebarInjected
           /\ whatsitState'.sidebarVisible
           /\ panel'.kind = "result"
           /\ panel'.summary = pass.id
           /\ Len(panel'.entries) = Len(resp.keyPoints)]_vars

(***************************************************************************)
(* Claims about the primary path of the background handlers                *)
(***************************************************************************)
\* the lines of a summary whose first character that is no white space is
\* '*' or '-'
BulletLines(summary) ==
  SelectSeq(split(summary, "\n"),
            LAMBDA line : trim(line) # <<>> /\ Head(trim(line)) \in {"*", "-"})

\* a bullet line without its marker
Unmarked(line) == trim(Tail(trim(line)))

\* text is a substring of s
Occurs(text, s) ==
  \E k \in 0..(Len(s) - Len(text)) : SubSeq(s, k + 1, k + Len(text)) = text

\* C27: the key points of a primary-path summary are the bullet lines of the
\* returned summary in line order, without their marker, each with the
\* importance and type of the first fragment of the request that contains
\* its text, or 3 and 'paragraph' when none does
C27_PrimaryKeyPoints ==
  (Responded /\ IsSummarize /\ PrimaryPath) =>
    LET els == localTextElements(message.text).a
        lines == BulletLines(returned.s)
    IN  /\ Len(response.keyPoints) = Len(lines)
        /\ \A k \in DOMAIN lines :
             LET text == Unmarked(lines[k])
                 holders == {i \in DOMAIN els : Occurs(text, els[i].text)}
                 point == response.keyPoints[k]
             IN  /\ point.text = text
                 /\ holders = {} =>
                      point.importance = 3 /\ point.type = "paragraph"
                 /\ \A i \in holders :
                      (\A j \in holders : i <= j) =>
                        /\ point.importance = els[i].importance
                        /\ point.type = els[i].type

\* a summary with a line that is no bullet, a bullet that two fragments
\* contain and a bullet that none contains
C27_Witness ==
  /\ Responded
  /\ IsSummarize
  /\ PrimaryPath
  /\ returned = Str(T_Either)
  /\ message.text.textElements = Arr(<<Intro, Topic>>)
  /\ response.keyPoints =
       << [text |-> <<"o">>, importance |-> 2, type |-> "heading"],
          [text |-> <<"q">>, importance |-> 3, type |-> "paragraph"] >>

\* the states of the service in which it can be used: all but 'unavailable'
Usable(v) == v \in AvailabilityValues \ {"unavailable"}

\* the calls on the language service after availability()
ServiceCalls == {"create", "summarize", "rewrite"}
Called(call) == \E i \in DOMAIN log : log[i] = call

\* C28: create, summarize and rewrite are called only after availability()
\* returned a usable state; with the service absent or 'unavailable' none of
\* them is called and the answer is the result of the fallback
C28_ServiceCalledOnlyWhenUsable ==
  /\ (\E call \in ServiceCalls : Called(call)) =>
       /\ Len(log) >= 2
       /\ log[1] = "availability"
       /\ Usable(log[2])
  /\ (Responded /\ (Absent \/ Unavailable) /\ (HasPageData \/ IsRewrite)) =>
       /\ \A call \in ServiceCalls : ~ Called(call)
       /\ response =
            ResponseOf(IF IsSummarize
                         THEN fallbackSummarize(localTextElements(message.text),
                                                localTitle(message.text))
                         ELSE fallbackRewrite(message.text,
                                              defaultOptions(message.options)))

\* the service reported 'unavailable' and the request was answered with the
\* fallback summary
C28_Witness ==
  /\ Responded
  /\ Unavailable
  /\ IsSummarize
  /\ message.text.textElements = Arr(<<Intro, Para101>>)
  /\ response.success = TRUE
  /\ Len(response.keyPoints) = 2

(***************************************************************************)
(* fallbackRewrite on texts with dictionary words                          *)
(***************************************************************************)
MaxWords == 2

\* "Utilize ": a dictionary word with a capital
T_Utilize ==
  <<"U", "t", "i", "l", "i", "z", "e", " ">>
\* "utilizes,SUFFICIENT.": a word that begins with a dictionary word, and a
\* dictionary word in capitals
T_Words ==
  <<"u", "t", "i", "l", "i", "z", "e", "s", ",", "S", "U", "F", "F", "I", "C",
    "I", "E", "N", "T", ".">>

WordTokens == { T_Utilize, T_Words, S_dont, S_do_not, <<"D">> }

RECURSIVE WordTexts(_)
WordTexts(n) ==
  IF n = 0 THEN { <<>> }
  ELSE LET shorter == WordTexts(n - 1)
       IN  shorter \cup { t \o k : t \in shorter, k \in WordTokens }

SimplifyInit ==
  /\ rwText \in WordTexts(MaxWords)
  /\ rwOptions \in ToneOptions
  /\ rwOut = Undefined
  /\ rwOut2 = Undefined
  /\ rwPc = "ready"
  /\ HandlerIdle
  /\ RankIdle
  /\ ContentIdle

SimplifySpec == SimplifyInit /\ [][ToneNext]_vars

(***************************************************************************)
(* Claims about the simplification of the fallback rewrite                 *)
(***************************************************************************)
RECURSIVE Runs(_)
\* the maximal runs of word characters and of other characters of s
Runs(s) ==
  IF s = <<>> THEN <<>>
  ELSE LET turns == { m \in 2..Len(s) : IsWordChar(s[m]) # IsWordChar(s[1]) }
           n == IF turns = {} THEN Len(s) ELSE SetMin(turns) - 1
       IN  << SubSeq(s, 1, n) >> \o Runs(SubSeq(s, n + 1, Len(s)))

\* the synonym of a run that is a dictionary word whatever its letter case,
\* and the run itself otherwise
Synonym(run) ==
  LET entries == { k \in DOMAIN simplifications :
                     simplifications[k][1] = toLowerCase(run) }
  IN  IF entries = {} THEN run
      ELSE simplifications[CHOOSE k \in entries : TRUE][2]

\* s with every whole dictionary word replaced by its synonym
Simplified(s) ==
  LET runs == Runs(s)
  IN  Flatten([i \in DOMAIN runs |-> Synonym(runs[i])])

\* C29: with simplify and a tone the rewritten text is adjustTone of the
\* text in which every whole dictionary word, in any letter case, is
\* replaced by its synonym; with simplify alone it is that text; with
\* neither it is the input text
C29_SimplifyThenTone ==
  Rewrote =>
    /\ (rwOptions.simplify /\ Truthy(rwOptions.tone)) =>
         rwOut.value.rewritten
           = adjustTone(Str(Simplified(rwText)), rwOptions.tone).value
    /\ (rwOptions.simplify /\ ~ Truthy(rwOptions.tone)) =>
         Rewritten = Simplified(rwText)
    /\ (~ rwOptions.simplify /\ ~ Truthy(rwOptions.tone)) =>
         Rewritten = rwText

\* "Utilize don't" was rewritten with simplify and tone 'formal'
C29_Witness ==
  /\ Rewrote
  /\ rwOptions.simplify
  /\ ToneIs(S_formal)
  /\ rwText = T_Utilize \o S_dont
  /\ Rewritten = <<"u", "s", "e", " ">> \o S_do_not

(***************************************************************************)
(* Claims about key points without an anchor                               *)
(***************************************************************************)
\* the anchor of a key point is resolved when its element is a node of the
\* document applyHighlights was called on
Resolvable(keyPoint) ==
  /\ IsNode(keyPoint.element)
  /\ Find(hist.prior, keyPoint.element) # <<>>

\* C30: applyHighlights ends without error, and the highlights it created
\* and registered are those with the list positions of the key points whose
\* anchor is resolved
C30_UnresolvableSkipped ==
  hist.op = "apply" =>
    LET resolved == { i - 1 : i \in { j \in DOMAIN hist.keyPoints :
                                        Resolvable(hist.keyPoints[j]) } }
    IN  /\ ~ hist.threw
        /\ { Registry[k].id : k \in DOMAIN Registry } = resolved
        /\ { Annotations[k].n : k \in DOMAIN Annotations } = resolved

(***************************************************************************)
(* Claims about renders, requests and the sidebar                          *)
(***************************************************************************)
\* injectSidebar() called on a page without sidebar
CallInjectSidebar ==
  /\ ~ whatsitState.sidebarInjected
  /\ Becomes(injectSidebar(Content))
  /\ hist' = [hist EXCEPT !.op = "inject", !.prior = panel]
  /\ UNCHANGED <<inflight, started, applied, delivered, notContent>>

\* updateSidebar(summary, keyPoints) called with the summary of one more
\* pass, which started counts
CallUpdateSidebar(keyPoints) ==
  /\ started < MaxPasses
  /\ started' = started + 1
  /\ Becomes(Detach(updateSidebar(Content, started + 1, keyPoints)))
  /\ hist' = [hist EXCEPT !.op = "render", !.keyPoints = keyPoints,
                          !.prior = panel]
  /\ UNCHANGED <<inflight, applied, delivered, notContent>>

RenderNext ==
  \/ CallInjectSidebar
  \/ \E keyPoints \in KeyPointLists : CallUpdateSidebar(keyPoints)
  \/ ToggleButtonClick

RenderSpec == ContentInit /\ [][RenderNext]_vars

\* C31: after updateSidebar(summary, keyPoints) on a page with a panel, the
\* panel holds that summary and one entry for each key point, in list order
\* and numbered from 0, and no entry of an earlier render is left in the
\* document
C31_RenderReplaces ==
  (hist.op = "render" /\ hist.prior.kind # "none") =>
    /\ panel.kind = "result"
    /\ panel.summary = started
    /\ panel.entries
         = [i \in DOMAIN hist.keyPoints |-> hist.keyPoints[i].text]
    /\ \A x \in Entries :
         InDocument(Content, x) <=>
           (x.gen = started /\ x.n + 1 \in DOMAIN hist.keyPoints)

\* one key point was rendered over a render of two entries
C31_Witness ==
  /\ hist.op = "render"
  /\ hist.prior.kind = "result"
  /\ Len(hist.prior.entries) = 2
  /\ panel.kind = "result"
  /\ Len(panel.entries) = 1

\* applyHighlights throws on these key points: an element of them is there
\* and is no node
Throws(keyPoints) ==
  \E i \in DOMAIN keyPoints :
    keyPoints[i].element # Undefined /\ ~ IsNode(keyPoints[i].element)

\* the response the step delivered did not make a result
Failed(resp) == ~ resp.success \/ Throws(resp.keyPoints)

(***************************************************************************)
(* The sidebar script (sidebar.js)                                         *)
(***************************************************************************)
MaxFetches == 3
Tabs == {"summary-panel", "rewrite-panel"}
PageDataValues == {Undefined, [title |-> <<"T">>]}
Answers == {Undefined, [success |-> FALSE], [success |-> TRUE]}

\* response && response.success (lines 263, 288)
Succeeded(resp) == resp # Undefined /\ resp.success

\* requestSummary() up to the callback (lines 281-284)
requestSummary(s) ==
  [s EXCEPT !.requested = @ + 1, !.sent = @ + 1]

\* fetchPageSummary() up to the callbacks (lines 254-276)
fetchPageSummary(s) ==
  LET loading == [s EXCEPT !.shown = {"summary-loading"}, !.fetches = @ + 1]
  IN  IF loading.pageData = Undefined
        THEN [loading EXCEPT !.asked = @ + 1]
        ELSE requestSummary(loading)

\* faulty variant: a response without success sends the request again
summaryCallbackRetry(s, resp) ==
  LET hidden == [s EXCEPT !.requested = @ - 1,
                          !.shown = @ \ {"summary-loading"}]
  IN  IF Succeeded(resp)
        THEN [hidden EXCEPT !.shown = @ \cup {"summary-content"}]
        ELSE requestSummary(hidden)

\* the callback of the summarize request (lines 285-316)
summaryCallback(s, resp) ==
  LET hidden == [s EXCEPT !.requested = @ - 1,
                          !.shown = @ \ {"summary-loading"}]
  IN  IF Succeeded(resp)
        THEN [hidden EXCEPT !.shown = @ \cup {"summary-content"}]
        ELSE [hidden EXCEPT !.shown = @ \cup {"summary-error"}]

\* the callback of the getPageData request (lines 262-271)
pageDataCallback(s, resp) ==
  LET answered == [s EXCEPT !.asked = @ - 1]
  IN  IF Succeeded(resp)
        THEN requestSummary(answered)
        ELSE [answered EXCEPT !.shown = (@ \ {"summary-loading"})
                                          \cup {"summary-error"}]

\* DOMContentLoaded: initializeSidebar() (lines 57, 137-165)
InitializeSidebar ==
  /\ ~ sidebarState.loaded
  /\ sidebarState' = fetchPageSummary([sidebarState EXCEPT !.loaded = TRUE])
  /\ UNCHANGED <<handlerVars, rankVars, toneVars, contentVars, listenerVars,
                 extracted, timing>>

\* a click on the refresh button of the summary panel (lines 70-72)
RefreshSummaryClick ==
  /\ sidebarState.loaded
  /\ sidebarState.fetches < MaxFetches
  /\ sidebarState' = fetchPageSummary(sidebarState)
  /\ UNCHANGED <<handlerVars, rankVars, toneVars, contentVars, listenerVars,
                 extracted, timing>>

\* a message with action 'updatePageData' (lines 140-143, 200-208)
UpdatePageDataMessage(data) ==
  /\ sidebarState.loaded
  /\ sidebarState.fetches < MaxFetches
  /\ LET stored == [sidebarState EXCEPT !.pageData = data]
     IN  sidebarState' = IF stored.activeTab = "summary-panel"
                           THEN fetchPageSummary(stored) ELSE stored
  /\ UNCHANGED <<handlerVars, rankVars, toneVars, contentVars, listenerVars,
                 extracted, timing>>

\* a click on a tab button: switchTab (lines 62-67, 173-175)
TabClick(tabId) ==
  /\ sidebarState.loaded
  /\ sidebarState' = [sidebarState EXCEPT !.activeTab = tabId]
  /\ UNCHANGED <<handlerVars, rankVars, toneVars, contentVars, listenerVars,
                 extracted, timing>>

\* the answer to a getPageData request arrives
PageDataAnswer(resp) ==
  /\ sidebarState.asked > 0
  /\ sidebarState' = pageDataCallback(sidebarState, resp)
  /\ UNCHANGED <<handlerVars, rankVars, toneVars, contentVars, listenerVars,
                 extracted, timing>>

\* the answer to a summarize request arrives
SummaryAnswer(resp) ==
  /\ sidebarState.requested > 0
  /\ sidebarState' = summaryCallback(sidebarState, resp)
  /\ UNCHANGED <<handlerVars, rankVars, toneVars, contentVars, listenerVars,
                 extracted, timing>>

SidebarNext ==
  \/ InitializeSidebar
  \/ RefreshSummaryClick
  \/ \E data \in PageDataValues : UpdatePageDataMessage(data)
  \/ \E tabId \in Tabs : TabClick(tabId)
  \/ \E resp \in Answers : PageDataAnswer(resp)
  \/ \E resp \in Answers : SummaryAnswer(resp)

\* the content script of a page and the sidebar script of a sidebar
\* document share no state: either of the two is followed on its own
RequestNext ==
  \/ sidebarState = InitialSidebarState /\ ContentNext
  \/ started = 0 /\ ~ whatsitState.isActive /\ SidebarNext

RequestSpec == ContentInit /\ [][RequestNext]_vars

\* a request of the content script left, a request of the sidebar script left
Requested == started' # started
Sent == sidebarState'.sent # sidebarState.sent

C32_SidebarWitness ==
  /\ sidebarState.pageData # Undefined
  /\ sidebarState.sent = 1
  /\ sidebarState.requested = 0
  /\ sidebarState.shown = {"summary-error"}

(***************************************************************************)
(* The image handler and the messages the background listener leaves       *)
(***************************************************************************)
S_MockDescription ==
  << "A", " ", "c", "h", "a", "r", "t", " ", "s", "h", "o", "w", "i", "n",
     "g", " ", "q", "u", "a", "r", "t", "e", "r", "l", "y", " ", "s", "a",
     "l", "e", "s", " ", "g", "r", "o", "w", "t", "h", " ", "o", "f", " ",
     "2", "0", "%", " ", "y", "e", "a", "r", "-", "o", "v", "e", "r", "-",
     "y", "e", "a", "r" >>

\* fallbackImageAnalysis() (lines 280-287); the confidence in hundredths
fallbackImageAnalysis ==
  [success |-> TRUE,
   description |-> Str(S_MockDescription),
   tags |-> << Str(<<"c", "h", "a", "r", "t">>),
               Str(<<"g", "r", "a", "p", "h">>),
               Str(<<"b", "u", "s", "i", "n", "e", "s", "s">>),
               Str(<<"g", "r", "o", "w", "t", "h">>),
               Str(<<"s", "a", "l", "e", "s">>) >>,
   confidence |-> 85]

\* the keywords of extractTags (lines 296-298)
Keywords ==
  << <<"c", "h", "a", "r", "t">>,
     <<"g", "r", "a", "p", "h">>,
     <<"t", "a", "b", "l", "e">>,
     <<"d", "a", "t", "a">>,
     <<"i", "m", "a", "g", "e">>,
     <<"p", "h", "o", "t", "o">>,
     <<"p", "i", "c", "t", "u", "r", "e">>,
     <<"b", "u", "s", "i", "n", "e", "s", "s">>,
     <<"g", "r", "o", "w", "t", "h">>,
     <<"s", "a", "l", "e", "s">>,
     <<"r", "e", "v", "e", "n", "u", "e">>,
     <<"p", "r", "o", "f", "i", "t">>,
     <<"l", "o", "s", "s">>,
     <<"i", "n", "c", "r", "e", "a", "s", "e">>,
     <<"d", "e", "c", "r", "e", "a", "s", "e">>,
     <<"t", "r", "e", "n", "d">>,
     <<"c", "o", "m", "p", "a", "r", "i", "s", "o", "n">>,
     <<"a", "n", "a", "l", "y", "s", "i", "s">> >>

\* extractTags(description) (lines 294-303)
extractTags(description) ==
  LET found == SelectSeq(Keywords, LAMBDA keyword :
                 includes(toLowerCase(description), toLowerCase(keyword)))
  IN  [i \in DOMAIN found |-> Str(found[i])]

Base64Chars ==
  { "A", "B", "C", "D", "E", "F", "G", "H", "I", "J", "K", "L", "M", "N",
    "O", "P", "Q", "R", "S", "T", "U", "V", "W", "X", "Y", "Z", "a", "b",
    "c", "d", "e", "f", "g", "h", "i", "j", "k", "l", "m", "n", "o", "p",
    "q", "r", "s", "t", "u", "v", "w", "x", "y", "z", "0", "1", "2", "3",
    "4", "5", "6", "7", "8", "9", "+", "/" }

\* atob: up to two '=' at the end of a text of a length that 4 divides are
\* dropped; what is left has to be made of the base64 characters and its
\* length must not be 1 modulo 4 (texts without white space)
unpadded(s) ==
  IF Len(s) % 4 = 0 /\ Len(s) > 0 /\ s[Len(s)] = "="
    THEN IF s[Len(s) - 1] = "=" THEN SubSeq(s, 1, Len(s) - 2)
         ELSE SubSeq(s, 1, Len(s) - 1)
    ELSE s

atobThrows(s) ==
  LET data == unpadded(s)
  IN  \/ Len(data) % 4 = 1
      \/ \E i \in DOMAIN data : data[i] \notin Base64Chars

\* atob(imageData.split(',')[1]) (line 240) throws: imageData has no split
\* method, or the part after the first comma, "undefined" if there is none,
\* is not base64
blobThrows(imageData) ==
  \/ ~ IsStr(imageData)
  \/ LET parts == split(imageData.s, ",")
     IN  atobThrows(IF Len(parts) < 2 THEN S_undefined ELSE parts[2])

\* a response of session.prompt with one candidate whose first part has text
Reply(text) ==
  [candidates |-> << [content |-> [parts |-> << [text |-> text] >>]] >>]

\* lines 260-268 in the try block of analyzeImage, with its catch (269-273)
imageResult(v) ==
  IF v = Undefined \/ v.candidates = <<>> THEN fallbackImageAnalysis
  ELSE LET description == v.candidates[1].content.parts[1].text
       IN  IF ~ IsStr(description) THEN fallbackImageAnalysis
           ELSE [success |-> TRUE,
                 description |-> description,
                 tags |-> extractTags(description.s),
                 confidence |-> 90]

ImageData ==
  { Undefined, Str(<<"x">>), Str(<<"d", ",", "A">>),
    Str(<<"d", ",", "Q", "Q", "=", "=">>) }
PromptValues ==
  { Undefined, [candidates |-> <<>>], Reply(Undefined),
    Reply(Str(<<"A", " ", "C", "h", "a", "r", "t", " ", "o", "f", " ",
                "d", "a", "t", "a">>)) }
OtherActions == {"getPageData", "getPageImages", "closeSidebar"}

\* listener, action 'analyzeImage': analyzeImage(message.imageData) runs up
\* to its first await.  present: 'LanguageModel' in self.
ReceiveAnalyzeImage(imageData, present) ==
  /\ pc = "idle"
  /\ message' = [action |-> "analyzeImage", text |-> Undefined,
                 options |-> Undefined, imageData |-> imageData]
  /\ response' = NoResponse
  /\ channel' = [kept |-> TRUE, calls |-> 0]
  /\ IF ~ present
       THEN /\ log' = <<"absent">>
            /\ Settle(Return(fallbackImageAnalysis))
       ELSE /\ log' = <<"availability">>
            /\ pc' = "imageAvailability"
            /\ promise' = Pending
  /\ UNCHANGED <<svcArg, returned, notHandler>>

\* LanguageModel.availability() resolves with v (lines 222-228)
ImageAvailabilityReturns(v) ==
  /\ pc = "imageAvailability"
  /\ IF unavailable(v)
       THEN /\ log' = log \o <<v>>
            /\ Settle(Return(fallbackImageAnalysis))
       ELSE /\ log' = log \o <<v, "create">>
            /\ pc' = "imageCreate"
            /\ UNCHANGED promise
  /\ UNCHANGED <<message, response, svcArg, returned, channel, notHandler>>

\* LanguageModel.create() resolves, with a usable session or with a value
\* that has no prompt method: the blob is made and the model prompted
\* (lines 231-257)
ImageCreateReturns(usable) ==
  /\ pc = "imageCreate"
  /\ IF blobThrows(message.imageData) \/ ~ usable
       THEN /\ log' = log \o <<"no prompt">>
            /\ Settle(Return(fallbackImageAnalysis))
       ELSE /\ log' = log \o <<"prompt">>
            /\ pc' = "prompt"
            /\ UNCHANGED promise
  /\ UNCHANGED <<message, response, svcArg, returned, channel, notHandler>>

\* session.prompt resolves with v (lines 248-269)
PromptReturns(v) ==
  /\ pc = "prompt"
  /\ log' = log \o <<"value">>
  /\ returned' = v
  /\ Settle(Return(imageResult(v)))
  /\ UNCHANGED <<message, response, svcArg, channel, notHandler>>

\* availability(), create() or prompt throws or rejects (lines 269-273)
ImageServiceThrows ==
  /\ pc \in {"imageAvailability", "imageCreate", "prompt"}
  /\ log' = log \o <<"throw">>
  /\ Settle(Return(fallbackImageAnalysis))
  /\ UNCHANGED <<message, response, svcArg, returned, channel, notHandler>>

\* listener, any other action: no branch is taken and the listener returns
\* undefined (lines 8-23)
ReceiveOther(action) ==
  /\ pc = "idle"
  /\ message' = [action |-> action, text |-> Undefined, options |-> Undefined]
  /\ pc' = "returned"
  /\ channel' = NoChannel
  /\ UNCHANGED <<promise, response, log, svcArg, returned, notHandler>>

ChannelNext ==
  \/ Next
  \/ \E imageData \in ImageData, present \in BOOLEAN :
       ReceiveAnalyzeImage(imageData, present)
  \/ \E v \in AvailabilityValues : ImageAvailabilityReturns(v)
  \/ \E usable \in BOOLEAN : ImageCreateReturns(usable)
  \/ \E v \in PromptValues : PromptReturns(v)
  \/ ImageServiceThrows
  \/ \E action \in OtherActions : ReceiveOther(action)

\* the .then and .catch callbacks are microtasks: a settled promise has its
\* callback run
ChannelSpec == Init /\ [][ChannelNext]_vars /\ WF_vars(SendResponse)

Handled == message.action \in {"summarize", "rewrite", "analyzeImage"}

\* C33: for a summarize, rewrite or analyzeImage message the listener
\* returns true and sendResponse is called once the promise of the handler
\* has settled, once and no more, with the value of a fulfilled promise and
\* with {success: false, error} for a rejected one; for any other message the
\* listener does not return true and sendResponse is never called
C33_RespondsOnce ==
  /\ [](Handled =>
          /\ channel.kept
          /\ channel.calls = (IF pc = "responded" THEN 1 ELSE 0)
          /\ pc = "responded" =>
               response = IF promise.state = "fulfilled" THEN promise.value
                          ELSE [success |-> FALSE, error |-> promise.message])
  /\ []((message # NoMessage /\ ~ Handled) =>
          /\ ~ channel.kept
          /\ channel.calls = 0
          /\ response = NoResponse)
  /\ [][channel'.calls # channel.calls =>
          pc = "settled" /\ channel.calls = 0]_vars
  /\ (pc = "settled") ~> (channel.calls = 1)

\* a summarize message without page data: the promise was rejected and
\* sendResponse called once
C33_Witness ==
  /\ Handled
  /\ promise.state = "rejected"
  /\ channel = [kept |-> TRUE, calls |-> 1]
  /\ response.success = FALSE

(***************************************************************************)
(* Claims about the importances of extractPageContent                      *)
(***************************************************************************)
FromContent == extracted # Undefined /\ extracted.by # "extractPageText"

\* the importance a fragment is pushed with: the level of the heading's tag,
\* 10 for a paragraph, 15 for a list item
Base(fragment) ==
  IF fragment.type = "heading" THEN getHeadingImportance(fragment.element.tag)
  ELSE IF fragment.type = "paragraph" THEN 10 ELSE 15

\* headings 1, paragraphs 2, list items 3
Class(fragment) ==
  IF fragment.type = "heading" THEN 1
  ELSE IF fragment.type = "paragraph" THEN 2 ELSE 3

\* C34: extractPageContent lowers by 2 the importance of the first five
\* fragments it produces (of all when there are fewer) and of no other: a
\* heading has its level or its level less 2, a paragraph 8 or 10, a list
\* item 13 or 15; and among the key points selectKeyPoints makes of them no
\* paragraph is before a heading and no list item before a paragraph or a
\* heading, nor is a fragment left out that is of an earlier kind than one
\* selected
C34_BoostAndRanking ==
  FromContent =>
    /\ \A i \in DOMAIN Produced :
         /\ Produced[i].importance =
              Base(Produced[i]) - (IF i <= 5 THEN 2 ELSE 0)
         /\ Produced[i].importance \in
              (CASE Produced[i].type = "heading" -> (-1)..6
                 [] Produced[i].type = "paragraph" -> {8, 10}
                 [] Produced[i].type = "list_item" -> {13, 15})
    /\ extracted.by = "selectKeyPoints" =>
         LET keyPoints == extracted.keyPoints
             selected == { keyPoints[k].element : k \in DOMAIN keyPoints }
         IN  /\ \A j, k \in DOMAIN keyPoints :
                  j < k => Class(keyPoints[j]) <= Class(keyPoints[k])
             /\ \A i \in DOMAIN Produced, k \in DOMAIN keyPoints :
                  Produced[i].element \notin selected =>
                    Class(keyPoints[k]) <= Class(Produced[i])

\* seven fragments: the sixth is a heading of level 6 that keeps importance
\* 6, the paragraph after it keeps 10, and five key points were selected
C34_Witness ==
  /\ FromContent
  /\ extracted.by = "selectKeyPoints"
  /\ Len(Produced) = 7
  /\ Produced[6].type = "heading" /\ Produced[6].importance = 6
  /\ Produced[7].type = "paragraph" /\ Produced[7].importance = 10
  /\ Len(extracted.keyPoints) = 5

(***************************************************************************)
(* The emphasis with its timers, time counted in seconds                   *)
(***************************************************************************)
\* setTimeout(..., 2000) of toggleHighlightEmphasis and of the click handler
EmphasisDelay == 2
MaxClicks == 2

\* classList.add('active') and setTimeout(() => classList.remove('active'),
\* 2000) on each of the elements (lines 343-344, 362-367): an earlier timer
\* of the element is left running
emphasize(elements) ==
  /\ timing.clicks < MaxClicks
  /\ active' = active \cup elements
  /\ timing' =
       [timers |-> timing.timers
                     \cup { [target |-> x, left |-> EmphasisDelay] : x \in elements },
        recent |-> { r \in timing.recent : r.target \notin elements }
                     \cup { [target |-> x, age |-> 0] : x \in elements },
        clicks |-> timing.clicks + 1]

\* a click on a highlight of the page (lines 336-345)
ClickHighlightTimed(highlightElement) ==
  /\ \E i \in DOMAIN querySelectorAll(doc) :
       querySelectorAll(doc)[i] = highlightElement
  /\ LET summaryItem == Entry(highlightElement.n, panel.summary)
     IN  emphasize({highlightElement}
                     \cup (IF InDocument(Content, summaryItem)
                             THEN {summaryItem} ELSE {}))
  /\ UNCHANGED <<doc, whatsitState, sidebar, panel, inflight, started, applied,
                 delivered, hist, handlerVars, rankVars, toneVars,
                 listenerVars, extracted, sidebarState>>

\* a click on entry index of the open panel (lines 519-525)
ClickEntryTimed(index) ==
  /\ panel.kind = "result"
  /\ ~ sidebar.collapsed
  /\ index + 1 \in DOMAIN panel.entries
  /\ LET highlightElement == querySelector(doc, index)
     IN  emphasize(IF highlightElement # Undefined
                     THEN {highlightElement} ELSE {})
  /\ UNCHANGED <<doc, whatsitState, sidebar, panel, inflight, started, applied,
                 delivered, hist, handlerVars, rankVars, toneVars,
                 listenerVars, extracted, sidebarState>>

\* a second passes while no timer is due
Tick ==
  /\ timing.timers # {} \/ timing.recent # {}
  /\ \A t \in timing.timers : t.left > 0
  /\ timing' =
       [timing EXCEPT
          !.timers = { [t EXCEPT !.left = @ - 1] : t \in timing.timers },
          !.recent = { [r EXCEPT !.age = @ + 1] :
                         r \in { q \in timing.recent :
                                   q.age + 1 < EmphasisDelay } }]
  /\ UNCHANGED <<contentVars, handlerVars, rankVars, toneVars, listenerVars,
                 extracted, sidebarState>>

\* a timer that is due fires: classList.remove('active') (lines 343, 366)
TimerFiresTimed(t) ==
  /\ t \in timing.timers
  /\ t.left = 0
  /\ active' = active \ {t.target}
  /\ timing' = [timing EXCEPT !.timers = @ \ {t}]
  /\ UNCHANGED <<doc, whatsitState, sidebar, panel, inflight, started, applied,
                 delivered, hist, handlerVars, rankVars, toneVars,
                 listenerVars, extracted, sidebarState>>

Timers == [target : Spans \cup Entries, left : 0..EmphasisDelay]

\* WhatsIt is activated once; the sidebar is opened and the analysis
\* refreshed before the first click on a highlight or an entry, and the
\* clicks come when every pass has been answered
EmphasisNext ==
  \/ started = 0 /\ ToggleMessage
  \/ timing.clicks = 0 /\ ToggleButtonClick
  \/ timing.clicks = 0 /\ RefreshClick
  \/ \E pass \in Passes, resp \in Responses : DeliverResponse(pass, resp)
  \/ inflight = {} /\ \E highlightElement \in Spans :
                         ClickHighlightTimed(highlightElement)
  \/ inflight = {} /\ \E index \in Indices : ClickEntryTimed(index)
  \/ Tick
  \/ \E t \in Timers : TimerFiresTimed(t)

EmphasisSpec == ContentInit /\ [][EmphasisNext]_vars

\* the highlights clicked less than EmphasisDelay seconds ago
RecentlyClicked == { r.target : r \in timing.recent }

\* C35: a highlight that is in the document does not lose its active flag
\* earlier than EmphasisDelay seconds after the most recent click on it or on
\* its panel entry
C35_FullDuration ==
  [][\A x \in Spans :
       (x \in active /\ x \notin active' /\ timing'.recent = timing.recent)
         => x \notin RecentlyClicked]_vars

\* C36: injectSidebar runs at most once, so the page never holds more than
\* one sidebar container and one toggle button, however toggle messages and
\* responses interleave; sidebarInjected tells whether it ran, and
\* sidebarVisible is true only while the sidebar is there and not collapsed
C36_OneSidebar ==
  /\ sidebar.containers <= 1
  /\ whatsitState.sidebarInjected <=> sidebar.containers = 1
  /\ whatsitState.sidebarVisible =>
       (sidebar.containers = 1 /\ ~ sidebar.collapsed)

\* on, off, on before the first response: both passes were answered while
\* WhatsIt was active, and the one sidebar is shown
C36_Witness ==
  /\ delivered.overlapped
  /\ delivered.count = 2
  /\ started = 2
  /\ \A p \in inflight : FALSE
  /\ whatsitState.isActive
  /\ sidebar.containers = 1
  /\ whatsitState.sidebarVisible

\* C37: selectKeyPoints and fallbackSummarize leave the array they are given
\* as it was, in order and in content, and the fallback summary names the
\* first heading and the first paragraph of that order
C37_InputUntouched ==
  rankPc \in {"returned", "summarized"} =>
    /\ rankEffect.textElements = rankInput
    /\ rankPc = "summarized" =>
         /\ rankEffect.summary = Str(ExpectedSummary(rankInput, <<"T">>))
         /\ rankOutput = selectKeyPoints(rankInput)

\* fallbackSummarize was called on a list whose first heading and first
\* paragraph are not the top-ranked heading and paragraph
C37_Witness ==
  /\ rankPc = "summarized"
  /\ HasType(rankInput, "heading")
  /\ HasType(rankInput, "paragraph")
  /\ rankOutput[1] # rankInput[FirstOfType(rankInput, "heading")]
  /\ \E k \in DOMAIN rankOutput :
       /\ rankOutput[k].type = "paragraph"
       /\ \A j \in 1..(k - 1) : rankOutput[j].type # "paragraph"
       /\ rankOutput[k] # rankInput[FirstOfType(rankInput, "paragraph")]

====
